---- MODULE Spec2Model ----
(***************************************************************************)
(* Beetle: a table-driven UTF-8 codec.  The model follows the DFA of       *)
(* src/src/utf8/internal/dfa.hpp and the range operations of               *)
(* src/include/beetle/utf8/algorithm.hpp and iterator.hpp.                 *)
(*                                                                         *)
(* A byte range [begin, end) is a sequence B; a cursor is the number of    *)
(* bytes before it (0 = begin, Len(B) = end), so *first is B[first + 1].   *)
(***************************************************************************)
EXTENDS Integers, Sequences, FiniteSets, TLC

VARIABLES
    B,       \* the input byte range
    cps,     \* the code point range: the input of encode, the output of decode
    sink,    \* the kind of output iterator the caller passes to sanitize
    pc,      \* the operation that ran last ("start" before any)
    pos,     \* the input cursor before the operation
    first,   \* the input cursor after the operation
    state,   \* the DFA state the last primitive ended with
    out,     \* the contents of the output sink
    ret,     \* the value the operation returned
    trail    \* the cursors an iterator walk has returned so far

vars == <<B, cps, sink, pc, pos, first, state, out, ret, trail>>

-----------------------------------------------------------------------------
(* Bounds of the model *)

\* longest input byte range
MaxLen == 4

\* longest input code point range
MaxCps == 2

\* most bytes the range encode is followed for
MaxOut == 6

\* The byte values the DFA primitives are given: every character class, and
\* both sides of every boundary the grammar draws inside a class.
Bytes ==
    { \h7F,                      \* eASC
      \h80, \h8F,                \* eC1
      \h90, \h9F,                \* eC2
      \hA0, \hBF,                \* eC3
      \hC1,                      \* eIgl (overlong leading byte)
      \hC2,                      \* eC4
      \hE0,                      \* eC5
      \hEC,                      \* eC6
      \hED,                      \* eC7
      \hF0,                      \* eC8
      \hF3,                      \* eC9
      \hF4,                      \* eC10
      \hF5 }                     \* eIgl

\* The byte values the range operations are given: one of every character
\* class, the zero byte and both kinds of illegal leading byte.
RangeBytes ==
    { \h00, \h41, \h80, \h90, \hBF, \hC0, \hC2, \hE0, \hE1, \hED, \hF0, \hF1, \hF4, \hFF }

\* The code points encode is given: both ends of every encoded length, the
\* surrogate gap, and the examples of the README.
CodePoints ==
    { \h00, \h24, \h7F, \h80, \hA3, \h7BF, \h7C0, \h7FF, \h800, \hD55C, \hD7FF,
      \hE000, \hFFFD, \hFFFF, \h10000, \h10348, \h10FFFF }


-----------------------------------------------------------------------------
(* DFA::State *)
eS1 == 0
eS2 == 1
eS3 == 2
eS4 == 3
eS5 == 4
eS6 == 5
eS7 == 6
eAccept == 7
eErrLead == 8
eErrOvrlg == 9
eErrCont == 10
eErrMiss == 11

(* DFA::CharClass *)
eASC == 0
eC1 == 1
eC2 == 2
eC3 == 3
eC4 == 4
eC5 == 5
eC6 == 6
eC7 == 7
eC8 == 8
eC9 == 9
eC10 == 10
eIgl == 11

LeadingByteInfo(s, d) == [next_state |-> s, data |-> d]

(* DFA::TableData: the tables, entry for entry *)
char_class ==
  << eASC, eASC, eASC, eASC, eASC, eASC, eASC, eASC, eASC, eASC, eASC, eASC, eASC, eASC, eASC, eASC,
     eASC, eASC, eASC, eASC, eASC, eASC, eASC, eASC, eASC, eASC, eASC, eASC, eASC, eASC, eASC, eASC,
     eASC, eASC, eASC, eASC, eASC, eASC, eASC, eASC, eASC, eASC, eASC, eASC, eASC, eASC, eASC, eASC,
     eASC, eASC, eASC, eASC, eASC, eASC, eASC, eASC, eASC, eASC, eASC, eASC, eASC, eASC, eASC, eASC,
     eASC, eASC, eASC, eASC, eASC, eASC, eASC, eASC, eASC, eASC, eASC, eASC, eASC, eASC, eASC, eASC,
     eASC, eASC, eASC, eASC, eASC, eASC, eASC, eASC, eASC, eASC, eASC, eASC, eASC, eASC, eASC, eASC,
     eASC, eASC, eASC, eASC, eASC, eASC, eASC, eASC, eASC, eASC, eASC, eASC, eASC, eASC, eASC, eASC,
     eASC, eASC, eASC, eASC, eASC, eASC, eASC, eASC, eASC, eASC, eASC, eASC, eASC, eASC, eASC, eASC,
     eC1, eC1, eC1, eC1, eC1, eC1, eC1, eC1, eC1, eC1, eC1, eC1, eC1, eC1, eC1, eC1,
     eC2, eC2, eC2, eC2, eC2, eC2, eC2, eC2, eC2, eC2, eC2, eC2, eC2, eC2, eC2, eC2,
     eC3, eC3, eC3, eC3, eC3, eC3, eC3, eC3, eC3, eC3, eC3, eC3, eC3, eC3, eC3, eC3,
     eC3, eC3, eC3, eC3, eC3, eC3, eC3, eC3, eC3, eC3, eC3, eC3, eC3, eC3, eC3, eC3,
     eIgl, eIgl, eC4, eC4, eC4, eC4, eC4, eC4, eC4, eC4, eC4, eC4, eC4, eC4, eC4, eC4,
     eC4, eC4, eC4, eC4, eC4, eC4, eC4, eC4, eC4, eC4, eC4, eC4, eC4, eC4, eC4, eC4,
     eC5, eC6, eC6, eC6, eC6, eC6, eC6, eC6, eC6, eC6, eC6, eC6, eC6, eC7, eC6, eC6,
     eC8, eC9, eC9, eC9, eC10, eIgl, eIgl, eIgl, eIgl, eIgl, eIgl, eIgl, eIgl, eIgl, eIgl, eIgl >>

leading_byte_states ==
  << LeadingByteInfo(eErrLead, \h80), LeadingByteInfo(eErrLead, \h81), LeadingByteInfo(eErrLead, \h82), LeadingByteInfo(eErrLead, \h83),
     LeadingByteInfo(eErrLead, \h84), LeadingByteInfo(eErrLead, \h85), LeadingByteInfo(eErrLead, \h86), LeadingByteInfo(eErrLead, \h87),
     LeadingByteInfo(eErrLead, \h88), LeadingByteInfo(eErrLead, \h80), LeadingByteInfo(eErrLead, \h8A), LeadingByteInfo(eErrLead, \h8B),
     LeadingByteInfo(eErrLead, \h8C), LeadingByteInfo(eErrLead, \h8D), LeadingByteInfo(eErrLead, \h8E), LeadingByteInfo(eErrLead, \h8F),
     LeadingByteInfo(eErrLead, \h90), LeadingByteInfo(eErrLead, \h91), LeadingByteInfo(eErrLead, \h92), LeadingByteInfo(eErrLead, \h93),
     LeadingByteInfo(eErrLead, \h94), LeadingByteInfo(eErrLead, \h95), LeadingByteInfo(eErrLead, \h96), LeadingByteInfo(eErrLead, \h97),
     LeadingByteInfo(eErrLead, \h98), LeadingByteInfo(eErrLead, \h99), LeadingByteInfo(eErrLead, \h9A), LeadingByteInfo(eErrLead, \h9B),
     LeadingByteInfo(eErrLead, \h9C), LeadingByteInfo(eErrLead, \h9D), LeadingByteInfo(eErrLead, \h9E), LeadingByteInfo(eErrLead, \h9F),
     LeadingByteInfo(eErrLead, \hA0), LeadingByteInfo(eErrLead, \hA1), LeadingByteInfo(eErrLead, \hA2), LeadingByteInfo(eErrLead, \hA3),
     LeadingByteInfo(eErrLead, \hA4), LeadingByteInfo(eErrLead, \hA5), LeadingByteInfo(eErrLead, \hA6), LeadingByteInfo(eErrLead, \hA7),
     LeadingByteInfo(eErrLead, \hA8), LeadingByteInfo(eErrLead, \hA9), LeadingByteInfo(eErrLead, \hAA), LeadingByteInfo(eErrLead, \hAB),
     LeadingByteInfo(eErrLead, \hAC), LeadingByteInfo(eErrLead, \hAD), LeadingByteInfo(eErrLead, \hAE), LeadingByteInfo(eErrLead, \hAF),
     LeadingByteInfo(eErrLead, \hB0), LeadingByteInfo(eErrLead, \hB1), LeadingByteInfo(eErrLead, \hB2), LeadingByteInfo(eErrLead, \hB3),
     LeadingByteInfo(eErrLead, \hB4), LeadingByteInfo(eErrLead, \hB5), LeadingByteInfo(eErrLead, \hB6), LeadingByteInfo(eErrLead, \hB7),
     LeadingByteInfo(eErrLead, \hB8), LeadingByteInfo(eErrLead, \hB9), LeadingByteInfo(eErrLead, \hBA), LeadingByteInfo(eErrLead, \hBB),
     LeadingByteInfo(eErrLead, \hBC), LeadingByteInfo(eErrLead, \hBD), LeadingByteInfo(eErrLead, \hBE), LeadingByteInfo(eErrLead, \hBF),
     LeadingByteInfo(eErrOvrlg, \hC0), LeadingByteInfo(eErrOvrlg, \hC1), LeadingByteInfo(eS1, \h02), LeadingByteInfo(eS1, \h03),
     LeadingByteInfo(eS1, \h04), LeadingByteInfo(eS1, \h05), LeadingByteInfo(eS1, \h06), LeadingByteInfo(eS1, \h07),
     LeadingByteInfo(eS1, \h08), LeadingByteInfo(eS1, \h09), LeadingByteInfo(eS1, \h0A), LeadingByteInfo(eS1, \h0B),
     LeadingByteInfo(eS1, \h0C), LeadingByteInfo(eS1, \h0D), LeadingByteInfo(eS1, \h0E), LeadingByteInfo(eS1, \h0F),
     LeadingByteInfo(eS1, \h10), LeadingByteInfo(eS1, \h11), LeadingByteInfo(eS1, \h12), LeadingByteInfo(eS1, \h13),
     LeadingByteInfo(eS1, \h14), LeadingByteInfo(eS1, \h15), LeadingByteInfo(eS1, \h16), LeadingByteInfo(eS1, \h17),
     LeadingByteInfo(eS1, \h18), LeadingByteInfo(eS1, \h19), LeadingByteInfo(eS1, \h1A), LeadingByteInfo(eS1, \h1B),
     LeadingByteInfo(eS1, \h1C), LeadingByteInfo(eS1, \h1D), LeadingByteInfo(eS1, \h1E), LeadingByteInfo(eS1, \h1F),
     LeadingByteInfo(eS2, \h00), LeadingByteInfo(eS4, \h01), LeadingByteInfo(eS4, \h02), LeadingByteInfo(eS4, \h03),
     LeadingByteInfo(eS4, \h04), LeadingByteInfo(eS4, \h05), LeadingByteInfo(eS4, \h06), LeadingByteInfo(eS4, \h07),
     LeadingByteInfo(eS4, \h08), LeadingByteInfo(eS4, \h09), LeadingByteInfo(eS4, \h0A), LeadingByteInfo(eS4, \h0B),
     LeadingByteInfo(eS4, \h0C), LeadingByteInfo(eS3, \h0D), LeadingByteInfo(eS4, \h0E), LeadingByteInfo(eS4, \h0F),
     LeadingByteInfo(eS5, \h00), LeadingByteInfo(eS6, \h01), LeadingByteInfo(eS6, \h02), LeadingByteInfo(eS6, \h03),
     LeadingByteInfo(eS7, \h04), LeadingByteInfo(eErrLead, \hF5), LeadingByteInfo(eErrLead, \hF6), LeadingByteInfo(eErrLead, \hF7),
     LeadingByteInfo(eErrLead, \hF8), LeadingByteInfo(eErrLead, \hF9), LeadingByteInfo(eErrLead, \hFA), LeadingByteInfo(eErrLead, \hFB),
     LeadingByteInfo(eErrLead, \hFC), LeadingByteInfo(eErrLead, \hFD), LeadingByteInfo(eErrLead, \hFE), LeadingByteInfo(eErrLead, \hFF) >>

forward_transitions ==
  << eErrCont, eAccept, eAccept, eAccept, eErrCont, eErrCont,
     eErrCont, eErrCont, eErrCont, eErrCont, eErrCont, eErrCont,
     eErrCont, eErrOvrlg, eErrOvrlg, eS1, eErrCont, eErrCont,
     eErrCont, eErrCont, eErrCont, eErrCont, eErrCont, eErrCont,
     eErrCont, eS1, eS1, eErrCont, eErrCont, eErrCont,
     eErrCont, eErrCont, eErrCont, eErrCont, eErrCont, eErrCont,
     eErrCont, eS1, eS1, eS1, eErrCont, eErrCont,
     eErrCont, eErrCont, eErrCont, eErrCont, eErrCont, eErrCont,
     eErrCont, eErrOvrlg, eS4, eS4, eErrCont, eErrCont,
     eErrCont, eErrCont, eErrCont, eErrCont, eErrCont, eErrCont,
     eErrCont, eS4, eS4, eS4, eErrCont, eErrCont,
     eErrCont, eErrCont, eErrCont, eErrCont, eErrCont, eErrCont,
     eErrCont, eS4, eErrCont, eErrCont, eErrCont, eErrCont,
     eErrCont, eErrCont, eErrCont, eErrCont, eErrCont, eErrCont >>

backward_transitions ==
  << eErrCont, eS2, eS2, eS3, eAccept, eErrCont,
     eErrCont, eErrCont, eErrCont, eErrCont, eErrCont, eErrCont,
     eErrCont, eS4, eS5, eS5, eErrCont, eErrOvrlg,
     eAccept, eAccept, eErrMiss, eErrMiss, eErrMiss, eErrCont,
     eErrCont, eS4, eS5, eS5, eErrCont, eAccept,
     eAccept, eErrCont, eErrMiss, eErrMiss, eErrMiss, eErrCont,
     eErrLead, eErrLead, eErrLead, eErrLead, eErrLead, eErrLead,
     eErrLead, eErrLead, eErrOvrlg, eAccept, eAccept, eErrLead,
     eErrLead, eErrLead, eErrLead, eErrLead, eErrLead, eErrLead,
     eErrLead, eErrLead, eAccept, eAccept, eErrLead, eErrLead,
     eS1, eS1, eS1, eS1, eS1, eS1,
     eS1, eS1, eS1, eS1, eS1, eS1 >>

ending_states ==
  << eErrMiss, eErrMiss, eErrMiss, eErrMiss, eErrMiss, eErrMiss,
     eErrMiss, eAccept, eErrLead, eErrOvrlg, eErrCont, eErrMiss >>

-----------------------------------------------------------------------------
(* utf8/internal/code_unit.hpp *)

is_ascii(code_unit) == code_unit < \h80

\* is_mb_leading_byte going by the bit pattern 11xxxxxx alone
is_mb_leading_byte_ByBitPattern(code_unit) == code_unit >= \hC0

is_mb_leading_byte(code_unit) == code_unit >= \hC2 /\ code_unit <= \hF4

is_leading_byte(code_unit) == is_ascii(code_unit) \/ is_mb_leading_byte(code_unit)

\* (code_unit & 0xC0) == 0x80
is_continuation_byte(code_unit) == (code_unit \div 64) = 2

-----------------------------------------------------------------------------
(* DFA helpers *)

\* get_leading_byte_info reading the entry of the byte before
get_leading_byte_info_OffByOne(leading_byte) ==
    leading_byte_states[IF leading_byte = \h80 THEN 1 ELSE leading_byte - \h80]

get_leading_byte_info(leading_byte) == leading_byte_states[(leading_byte - \h80) + 1]

can_advance(current_state) == current_state < eAccept

\* row_offset is a std::uint8_t
row_length == 12

\* advance_state_forward reading row eS4 for eS3: the surrogate gate is lost
advance_state_forward_NoSurrogateGate(current_state, code_unit) ==
    forward_transitions[((IF current_state = eS3 THEN eS4 ELSE current_state) * row_length)
                        + char_class[code_unit + 1] + 1]

\* advance_state_forward reading row eS6 for eS7: the gate at U+10FFFF is lost
advance_state_forward_NoUpperBound(current_state, code_unit) ==
    forward_transitions[((IF current_state = eS7 THEN eS6 ELSE current_state) * row_length)
                        + char_class[code_unit + 1] + 1]

\* advance_state_forward reporting an overlong second byte as a plain bad
\* continuation byte
advance_state_forward_OverlongAsCont(current_state, code_unit) ==
    LET next_state == forward_transitions[(current_state * row_length)
                                          + char_class[code_unit + 1] + 1]
    IN  IF next_state = eErrOvrlg THEN eErrCont ELSE next_state

advance_state_forward(current_state, code_unit) ==
    forward_transitions[((current_state * row_length) % 256) + char_class[code_unit + 1] + 1]

\* row_offset + column_offset, the index advance_state_forward and
\* advance_state_backward read their table at
transition_index(current_state, code_unit) ==
    ((current_state * row_length) % 256) + char_class[code_unit + 1]

\* advance_state_backward with a sixth working state where the table has S5
advance_state_backward_EntersS6(current_state, code_unit) ==
    LET next_state == backward_transitions[((current_state * row_length) % 256)
                                           + char_class[code_unit + 1] + 1]
    IN  IF next_state = eS5 THEN eS6 ELSE next_state

\* advance_state_backward without the gate that keeps ED A0..BF out
advance_state_backward_NoSurrogateGate(current_state, code_unit) ==
    IF current_state = eS3 /\ char_class[code_unit + 1] = eC7 THEN eAccept
    ELSE backward_transitions[((current_state * row_length) % 256) + char_class[code_unit + 1] + 1]

advance_state_backward(current_state, code_unit) ==
    backward_transitions[((current_state * row_length) % 256) + char_class[code_unit + 1] + 1]

\* get_ending_state handing a working state back as it is
get_ending_state_Identity(current_state) == current_state

get_ending_state(current_state) == ending_states[current_state + 1]

\* utf8::Error
eNone == 0
eLeadingByte == 1
eOverlongEncoded == 2
eContinuationByte == 3
eMissingByte == 4
eUnknown == 5

\* message(utf8::Error)
message(error) ==
    CASE error = eNone -> "none"
      [] error = eLeadingByte -> "expected a leading byte"
      [] error = eOverlongEncoded -> "detected overlong encoding"
      [] error = eContinuationByte -> "expected a continuation byte"
      [] error = eMissingByte -> "expected more bytes"
      [] OTHER -> "unknown error"

\* ErrorCategory::message(int)
ErrorCategory_message(condition) ==
    CASE condition = eLeadingByte -> "expected a leading byte"
      [] condition = eOverlongEncoded -> "detected overlong encoding"
      [] condition = eContinuationByte -> "expected a continuation byte"
      [] condition = eMissingByte -> "expected more bytes"
      [] OTHER -> "unknown error"

\* ending_state_to_error without the offset of one that eLeadingByte starts at
ending_state_to_error_NoOffset(ending_state) == ending_state - eErrLead

\* defined for the error states only (the assertion of the code)
ending_state_to_error(ending_state) == ending_state - (eErrLead - 1)

\* beetle::make_error_condition(utf8::Error): the value and the category
beetle_make_error_condition(error) == [value |-> error, category |-> "UTF-8"]

\* DFA::make_error_condition(State)
make_error_condition(ending_state) ==
    beetle_make_error_condition(ending_state_to_error(ending_state))

\* std::error_condition{}: the condition a caller hands in
no_error_condition == [value |-> 0, category |-> "generic"]

\* std::error_condition::message()
condition_message(condition) ==
    IF condition.category = "UTF-8" THEN ErrorCategory_message(condition.value)
    ELSE "Success"

-----------------------------------------------------------------------------
(* Advancing *)

\* the while loop of advance_mb_forward_once
RECURSIVE advance_mb_forward_loop(_, _, _, _)
advance_mb_forward_loop(in, f, last, st) ==
    IF f # last /\ can_advance(st)
    THEN advance_mb_forward_loop(in, f + 1, last, advance_state_forward(st, in[f + 1]))
    ELSE [state |-> st, first |-> f]

advance_mb_forward_once(in, f, last) ==
    LET r == advance_mb_forward_loop(in, f + 1, last, get_leading_byte_info(in[f + 1]).next_state)
    IN  [state |-> get_ending_state(r.state), first |-> r.first]

advance_forward_once(in, f, last) ==
    IF is_ascii(in[f + 1])
    THEN [state |-> eAccept, first |-> f + 1]
    ELSE advance_mb_forward_once(in, f, last)

-----------------------------------------------------------------------------
(* Unsigned integer arithmetic of the C++ code *)

RECURSIVE BitOr(_, _)
BitOr(a, b) ==
    IF a = 0 THEN b
    ELSE IF b = 0 THEN a
    ELSE (IF a % 2 = 1 \/ b % 2 = 1 THEN 1 ELSE 0) + 2 * BitOr(a \div 2, b \div 2)

RECURSIVE BitAnd(_, _)
BitAnd(a, b) ==
    IF a = 0 \/ b = 0 THEN 0
    ELSE (IF a % 2 = 1 /\ b % 2 = 1 THEN 1 ELSE 0) + 2 * BitAnd(a \div 2, b \div 2)

\* operator| of every two values of six bits
BitOrOfSix == [a \in 0..63 |-> [b \in 0..63 |-> BitOr(a, b)]]

\* operator| of two values of char32_t, six bits at a time
RECURSIVE BitOrBySix(_, _)
BitOrBySix(a, b) ==
    IF a = 0 THEN b
    ELSE IF b = 0 THEN a
    ELSE BitOrOfSix[a % 64][b % 64] + 64 * BitOrBySix(a \div 64, b \div 64)

ShiftRight(a, n) == a \div (2 ^ n)

\* out_code_unit_32 << 6.  The accumulator starts below 2^8 and a walk shifts
\* it at most three times, so it stays below 2^26 and char32_t never wraps.
ShiftLeft(a, n) == a * (2 ^ n)

\* static_cast<char8_t>
ToChar8(a) == a % 256

-----------------------------------------------------------------------------
(* beetle/code_unit.hpp.  Its predicates carry the names of those of dfa.hpp;
   they are written here with the prefix code_unit_. *)

g_lastLeadingByte == \hF7

code_unit_is_ascii(code_unit) == BitAnd(code_unit, \h80) = \h00

\* is_leading_multiple_bytes that ends at F4, the last leading byte of RFC 3629
is_leading_multiple_bytes_UpToF4(code_unit) == code_unit >= \hC0 /\ code_unit <= \hF4

is_leading_multiple_bytes(code_unit) == code_unit >= \hC0 /\ code_unit <= g_lastLeadingByte

code_unit_is_leading_byte(code_unit) ==
    code_unit_is_ascii(code_unit) \/ is_leading_multiple_bytes(code_unit)

\* leading_byte_size: the size, or std::invalid_argument thrown
leading_byte_size(code_unit) ==
    IF code_unit_is_ascii(code_unit) THEN [thrown |-> "none", value |-> 1]
    ELSE IF BitAnd(code_unit, \hE0) = \hC0 THEN [thrown |-> "none", value |-> 2]
    ELSE IF BitAnd(code_unit, \hF0) = \hE0 THEN [thrown |-> "none", value |-> 3]
    ELSE IF BitAnd(code_unit, \hF8) = \hF0 THEN [thrown |-> "none", value |-> 4]
    ELSE [thrown |-> "invalid_argument", value |-> 0]

\* peek_char_size, which is noexcept: an exception that leaves
\* leading_byte_size ends the process in std::terminate.  The optional is a
\* record of has_value and value.
peek_char_size(code_unit) ==
    IF code_unit_is_leading_byte(code_unit)
    THEN [terminated |-> leading_byte_size(code_unit).thrown # "none",
          has_value |-> leading_byte_size(code_unit).thrown = "none",
          value |-> leading_byte_size(code_unit).value]
    ELSE [terminated |-> FALSE, has_value |-> FALSE, value |-> 0]

-----------------------------------------------------------------------------
(* Decoding and advancing *)

\* the while loop of decode_and_advance_mb_forward_once
RECURSIVE decode_and_advance_mb_forward_loop(_, _, _, _, _)
decode_and_advance_mb_forward_loop(in, f, last, st, acc) ==
    IF f # last /\ can_advance(st)
    THEN decode_and_advance_mb_forward_loop(in, f + 1, last,
             advance_state_forward(st, in[f + 1]),
             BitOr(ShiftLeft(acc, 6), BitAnd(in[f + 1], \h3F)))
    ELSE [state |-> st, first |-> f, code_point |-> acc]

\* decode_and_advance_mb_forward_once starting the accumulator with the
\* leading byte, marker bits included
decode_and_advance_mb_forward_once_KeepsMarker(in, f, last) ==
    LET info == get_leading_byte_info(in[f + 1])
        r == decode_and_advance_mb_forward_loop(in, f + 1, last, info.next_state, in[f + 1])
    IN  [state |-> get_ending_state(r.state), first |-> r.first, code_point |-> r.code_point]

decode_and_advance_mb_forward_once(in, f, last) ==
    LET info == get_leading_byte_info(in[f + 1])
        r == decode_and_advance_mb_forward_loop(in, f + 1, last, info.next_state, info.data)
    IN  [state |-> get_ending_state(r.state), first |-> r.first, code_point |-> r.code_point]

\* decode_and_advance_forward_once leaving the cursor at last when the
\* character is not accepted
decode_and_advance_forward_once_SkipsToLast(in, f, last) ==
    IF is_ascii(in[f + 1])
    THEN [state |-> eAccept, first |-> f + 1, code_point |-> in[f + 1]]
    ELSE LET r == decode_and_advance_mb_forward_once(in, f, last)
         IN  IF r.state = eAccept THEN r ELSE [r EXCEPT !.first = last]

decode_and_advance_forward_once(in, f, last) ==
    IF is_ascii(in[f + 1])
    THEN [state |-> eAccept, first |-> f + 1, code_point |-> in[f + 1]]
    ELSE decode_and_advance_mb_forward_once(in, f, last)

-----------------------------------------------------------------------------
(* Copying and advancing.  The sink of the primitive is the scratch string of
   the caller: `copied` is what the call appended to it. *)

\* the while loop of copy_and_advance_mb_forward_once
RECURSIVE copy_and_advance_mb_forward_loop(_, _, _, _, _)
copy_and_advance_mb_forward_loop(in, f, last, st, copied) ==
    IF f # last /\ can_advance(st)
    THEN copy_and_advance_mb_forward_loop(in, f + 1, last,
             advance_state_forward(st, in[f + 1]), Append(copied, in[f + 1]))
    ELSE [state |-> st, first |-> f, copied |-> copied]

\* the leading byte is read for its next_state and stepped over; only the
\* bytes the loop reads are written to the sink
copy_and_advance_mb_forward_once(in, f, last) ==
    LET r == copy_and_advance_mb_forward_loop(in, f + 1, last,
                 get_leading_byte_info(in[f + 1]).next_state, <<>>)
    IN  [state |-> get_ending_state(r.state), first |-> r.first, copied |-> r.copied]

\* copy_and_advance_forward_once putting the cursor back where it was when the
\* character is not accepted
copy_and_advance_forward_once_RewindsOnError(in, f, last) ==
    IF is_ascii(in[f + 1])
    THEN [state |-> eAccept, first |-> f + 1, copied |-> <<in[f + 1]>>]
    ELSE LET r == copy_and_advance_mb_forward_once(in, f, last)
         IN  IF r.state = eAccept THEN r ELSE [r EXCEPT !.first = f]

copy_and_advance_forward_once(in, f, last) ==
    IF is_ascii(in[f + 1])
    THEN [state |-> eAccept, first |-> f + 1, copied |-> <<in[f + 1]>>]
    ELSE copy_and_advance_mb_forward_once(in, f, last)

-----------------------------------------------------------------------------
(* Advancing backward.  `last` is the left bound of the walk.  A read at a
   cursor below 0 is a read before the first byte of the range: `oob` records
   that the walk was about to make one. *)

\* the while loop of advance_mb_backward_once
RECURSIVE advance_mb_backward_loop(_, _, _, _)
advance_mb_backward_loop(in, f, last, st) ==
    IF f # last /\ can_advance(st)
    THEN IF f < 0
         THEN [state |-> st, first |-> f, oob |-> TRUE]
         ELSE advance_mb_backward_loop(in, f - 1, last, advance_state_backward(st, in[f + 1]))
    ELSE [state |-> st, first |-> f, oob |-> FALSE]

advance_mb_backward_once(in, f, last) ==
    IF ~is_continuation_byte(in[f + 1])
    THEN [state |-> eErrCont, first |-> f, oob |-> FALSE]
    ELSE LET r == advance_mb_backward_loop(in, f - 1, last, eS1)
         IN  [state |-> get_ending_state(r.state), first |-> r.first, oob |-> r.oob]

advance_backward_once(in, f, last) ==
    IF is_ascii(in[f + 1])
    THEN [state |-> eAccept, first |-> f - 1, oob |-> FALSE]
    ELSE advance_mb_backward_once(in, f, last)

\* what follows the while loop of decode_and_advance_mb_backward_once:
\* `can_advance(state) && is_mb_leading_byte(*first)` reads *first whenever
\* the state can advance, at the bound too
decode_and_advance_mb_backward_leading_byte(in, f, st, acc, shift_amount) ==
    IF ~can_advance(st)
    THEN [state |-> get_ending_state(st), first |-> f, code_point |-> acc, oob |-> FALSE]
    ELSE IF f < 0
    THEN [state |-> get_ending_state(st), first |-> f, code_point |-> acc, oob |-> TRUE]
    ELSE IF is_mb_leading_byte(in[f + 1])
    THEN [state |-> get_ending_state(advance_state_backward(st, in[f + 1])),
          first |-> f - 1,
          code_point |-> BitOrBySix(acc,
                                    ShiftLeft(get_leading_byte_info(in[f + 1]).data,
                                              shift_amount)),
          oob |-> FALSE]
    ELSE [state |-> get_ending_state(st), first |-> f, code_point |-> acc, oob |-> FALSE]

\* the while loop of decode_and_advance_mb_backward_once, and what follows it
RECURSIVE decode_and_advance_mb_backward_loop(_, _, _, _, _, _)
decode_and_advance_mb_backward_loop(in, f, last, st, acc, shift_amount) ==
    IF f # last /\ f < 0
    THEN [state |-> get_ending_state(st), first |-> f, code_point |-> acc, oob |-> TRUE]
    ELSE IF f # last /\ ~is_mb_leading_byte(in[f + 1]) /\ can_advance(st)
    THEN decode_and_advance_mb_backward_loop(in, f - 1, last,
             advance_state_backward(st, in[f + 1]),
             BitOrBySix(acc, ShiftLeft(BitAnd(in[f + 1], \h3F), shift_amount)),
             shift_amount + 6)
    ELSE decode_and_advance_mb_backward_leading_byte(in, f, st, acc, shift_amount)

\* decode_and_advance_mb_backward_once shifting the bits of the second byte
\* read by nothing
decode_and_advance_mb_backward_once_ShiftFromZero(in, f, last, code_point) ==
    IF ~is_continuation_byte(in[f + 1])
    THEN [state |-> eErrCont, first |-> f, code_point |-> code_point, oob |-> FALSE]
    ELSE decode_and_advance_mb_backward_loop(in, f - 1, last, eS1,
                                             BitAnd(in[f + 1], \h3F), 0)

\* code_point is out_code_unit_32 as the caller hands it in
decode_and_advance_mb_backward_once(in, f, last, code_point) ==
    IF ~is_continuation_byte(in[f + 1])
    THEN [state |-> eErrCont, first |-> f, code_point |-> code_point, oob |-> FALSE]
    ELSE decode_and_advance_mb_backward_loop(in, f - 1, last, eS1,
                                             BitAnd(in[f + 1], \h3F), 6)

decode_and_advance_backward_once(in, f, last, code_point) ==
    IF is_ascii(in[f + 1])
    THEN [state |-> eAccept, first |-> f - 1, code_point |-> in[f + 1], oob |-> FALSE]
    ELSE decode_and_advance_mb_backward_once(in, f, last, code_point)

-----------------------------------------------------------------------------
(* beetle/utf8/iterator.hpp, namespace unsafe *)

\* std::countl_zero of an unsigned char
RECURSIVE countl_zero(_)
countl_zero(x) == IF x >= 128 THEN 0 ELSE IF x = 0 THEN 8 ELSE 1 + countl_zero((2 * x) % 256)

\* char_size_from_leading_byte that knows no leading byte of four bytes
unsafe_char_size_from_leading_byte_UpToThree(code_unit) ==
    IF is_ascii(code_unit) THEN 1
    ELSE IF countl_zero(255 - code_unit) > 3 THEN 3 ELSE countl_zero(255 - code_unit)

\* internal::unsafe::char_size_from_leading_byte: ~code_unit narrowed to an
\* unsigned char is 255 - code_unit
unsafe_char_size_from_leading_byte(code_unit) ==
    (IF is_ascii(code_unit) THEN 1 ELSE 0) + countl_zero(255 - code_unit)

\* unsafe::next_fn::operator()(iterator)
unsafe_next(in, iterator) == iterator + unsafe_char_size_from_leading_byte(in[iterator + 1])

(* beetle/utf8/algorithm.hpp *)

\* the while loop of impl_safe_str_len
RECURSIVE impl_safe_str_len_loop(_, _, _, _)
impl_safe_str_len_loop(in, f, last, length) ==
    IF f # last /\ in[f + 1] # 0
    THEN LET r == advance_forward_once(in, f, last)
         IN  IF r.state # eAccept
             THEN [state |-> r.state, length |-> 0]
             ELSE impl_safe_str_len_loop(in, r.first, last, length + 1)
    ELSE [state |-> eAccept, length |-> length]

\* impl_safe_str_len that keeps the count of the characters before the one
\* that is not accepted
RECURSIVE impl_safe_str_len_loop_KeepsCount(_, _, _, _)
impl_safe_str_len_loop_KeepsCount(in, f, last, length) ==
    IF f # last /\ in[f + 1] # 0
    THEN LET r == advance_forward_once(in, f, last)
         IN  IF r.state # eAccept
             THEN [state |-> r.state, length |-> length]
             ELSE impl_safe_str_len_loop_KeepsCount(in, r.first, last, length + 1)
    ELSE [state |-> eAccept, length |-> length]

impl_safe_str_len_KeepsCount(in, f, last) == impl_safe_str_len_loop_KeepsCount(in, f, last, 0)

\* impl_safe_str_len that does not stop at a zero byte
RECURSIVE impl_safe_str_len_ToLast(_, _, _)
impl_safe_str_len_ToLast(in, f, last) ==
    IF f # last
    THEN LET r == advance_forward_once(in, f, last)
         IN  IF r.state # eAccept
             THEN [state |-> r.state, length |-> 0]
             ELSE LET rest == impl_safe_str_len_ToLast(in, r.first, last)
                  IN  IF rest.state # eAccept THEN rest
                      ELSE [state |-> eAccept, length |-> rest.length + 1]
    ELSE [state |-> eAccept, length |-> 0]

impl_safe_str_len(in, f, last) == impl_safe_str_len_loop(in, f, last, 0)

\* the while loop of unsafe::str_len: the length, whether the cursor was
\* stepped beyond last (it is compared and read there), and whether
\* char_size_from_leading_byte was given a byte that is no leading byte
RECURSIVE unsafe_str_len_loop(_, _, _, _)
unsafe_str_len_loop(in, f, last, length) ==
    IF f # last /\ in[f + 1] # 0
    THEN LET n == unsafe_next(in, f)
         IN  IF n > last
             THEN [length |-> length + 1, beyond |-> TRUE,
                   asserts |-> ~is_leading_byte(in[f + 1])]
             ELSE LET rest == unsafe_str_len_loop(in, n, last, length + 1)
                  IN  [rest EXCEPT !.asserts = @ \/ ~is_leading_byte(in[f + 1])]
    ELSE [length |-> length, beyond |-> FALSE, asserts |-> FALSE]

unsafe_str_len(in, f, last) == unsafe_str_len_loop(in, f, last, 0)

\* std::ranges::find_if(first, last, is_leading_byte)
RECURSIVE find_leading_byte(_, _, _)
find_leading_byte(in, f, last) ==
    IF f # last /\ ~is_leading_byte(in[f + 1])
    THEN find_leading_byte(in, f + 1, last)
    ELSE f

RECURSIVE find_invalid(_, _, _)
find_invalid(in, f, last) ==
    IF f # last
    THEN LET r == advance_forward_once(in, f, last)
         IN  IF r.state # eAccept THEN r.first ELSE find_invalid(in, r.first, last)
    ELSE f

\* is_valid leaving its loop at exhaustion without looking at the ending state
RECURSIVE is_valid_IgnoresLastState(_, _, _)
is_valid_IgnoresLastState(in, f, last) ==
    IF f # last
    THEN LET r == advance_forward_once(in, f, last)
         IN  IF r.first = last THEN TRUE
             ELSE IF r.state # eAccept THEN FALSE
             ELSE is_valid_IgnoresLastState(in, r.first, last)
    ELSE TRUE

RECURSIVE is_valid(_, _, _)
is_valid(in, f, last) ==
    IF f # last
    THEN LET r == advance_forward_once(in, f, last)
         IN  IF r.state # eAccept THEN FALSE ELSE is_valid(in, r.first, last)
    ELSE TRUE

\* encode taking the two-byte branch up to U+0FFF
encode_TwoBytesUpToFFF(code_point) ==
    LET raw_value == code_point
    IN  IF code_point <= \h7F
        THEN << ToChar8(raw_value) >>
        ELSE IF code_point <= \h0FFF
        THEN << ToChar8(BitOr(ShiftRight(raw_value, 6), \hDF)),
                ToChar8(BitOr(ToChar8(BitAnd(raw_value, \h3F)), \h80)) >>
        ELSE IF code_point <= \hFFFF
        THEN << ToChar8(BitOr(ShiftRight(raw_value, 12), \hE0)),
                ToChar8(BitOr(BitAnd(ShiftRight(raw_value, 6), \h3F), \h80)),
                ToChar8(BitOr(BitAnd(raw_value, \h3F), \h80)) >>
        ELSE << ToChar8(BitOr(ShiftRight(raw_value, 18), \hF0)),
                ToChar8(BitOr(BitAnd(ShiftRight(raw_value, 12), \h3F), \h80)),
                ToChar8(BitOr(BitAnd(ShiftRight(raw_value, 6), \h3F), \h80)),
                ToChar8(BitOr(BitAnd(raw_value, \h3F), \h80)) >>

\* encode(unicode::CodePoint, Output): the bytes written, in order
encode(code_point) ==
    LET raw_value == code_point
    IN  IF code_point <= \h7F
        THEN << ToChar8(raw_value) >>
        ELSE IF code_point <= \h07FF
        THEN << ToChar8(BitOr(ShiftRight(raw_value, 6), \hDF)),
                ToChar8(BitOr(ToChar8(BitAnd(raw_value, \h3F)), \h80)) >>
        ELSE IF code_point <= \hFFFF
        THEN << ToChar8(BitOr(ShiftRight(raw_value, 12), \hE0)),
                ToChar8(BitOr(BitAnd(ShiftRight(raw_value, 6), \h3F), \h80)),
                ToChar8(BitOr(BitAnd(raw_value, \h3F), \h80)) >>
        ELSE << ToChar8(BitOr(ShiftRight(raw_value, 18), \hF0)),
                ToChar8(BitOr(BitAnd(ShiftRight(raw_value, 12), \h3F), \h80)),
                ToChar8(BitOr(BitAnd(ShiftRight(raw_value, 6), \h3F), \h80)),
                ToChar8(BitOr(BitAnd(raw_value, \h3F), \h80)) >>

\* decode_and_advance: the code point, or the error condition thrown
decode_and_advance(in, f, last) ==
    LET r == decode_and_advance_forward_once(in, f, last)
    IN  IF r.state # eAccept
        THEN [thrown |-> "error_condition", state |-> r.state, first |-> r.first, value |-> 0]
        ELSE [thrown |-> "none", state |-> r.state, first |-> r.first, value |-> r.code_point]

\* decode(Iterator, Sentinel) without the check for bytes left over
decode_IgnoresTrailingBytes(in, f, last) == decode_and_advance(in, f, last)

\* decode(Iterator, Sentinel): one character
decode(in, f, last) ==
    LET r == decode_and_advance(in, f, last)
    IN  IF r.thrown = "none" /\ r.first # last
        THEN [thrown |-> "length_error", state |-> r.state, first |-> r.first, value |-> 0]
        ELSE r

\* decode(Iterator, Sentinel, Output): the while loop
RECURSIVE decode_range(_, _, _, _)
decode_range(in, f, last, result) ==
    IF f # last
    THEN LET r == decode_and_advance_forward_once(in, f, last)
         IN  IF r.state # eAccept
             THEN [in |-> r.first, out |-> result]
             ELSE decode_range(in, r.first, last, Append(result, r.code_point))
    ELSE [in |-> f, out |-> result]

\* unicode::code_points::replacement_character
replacement_character == \hFFFD

\* What std::ranges::copy(chars, result) leaves in the sink `mem`.  sanitize
\* drops the iterator the copy returns, so its own `result` is the one it was
\* given: a std::back_inserter appends all the same, any other output iterator
\* writes from the position it was given again.
Overwrite(mem, chars) ==
    [i \in 1..(IF Len(chars) > Len(mem) THEN Len(chars) ELSE Len(mem)) |->
        IF i <= Len(chars) THEN chars[i] ELSE mem[i]]

copy_to_result(output, mem, chars) ==
    IF output = "back_inserter" THEN mem \o chars ELSE Overwrite(mem, chars)

\* the while loop of sanitize
RECURSIVE sanitize_loop(_, _, _, _, _, _)
sanitize_loop(in, f, last, output, mem, replacement_char) ==
    IF f # last
    THEN LET r == copy_and_advance_forward_once(in, f, last)
         IN  IF r.state = eAccept
             THEN sanitize_loop(in, r.first, last, output,
                      copy_to_result(output, mem, r.copied), replacement_char)
             ELSE sanitize_loop(in, find_leading_byte(in, r.first, last), last, output,
                      copy_to_result(output, mem, replacement_char), replacement_char)
    ELSE [in |-> f, mem |-> mem]

sanitize(in, f, last, output, replacement_code_point) ==
    sanitize_loop(in, f, last, output, <<>>, encode(replacement_code_point))

\* the output iterator of `return {std::move(first), std::move(result)}`: no
\* statement of sanitize assigns result, it is the iterator that was given
sanitize_out(result) == result

-----------------------------------------------------------------------------
(* unicode/code_point.hpp.  A CodePoint is the record of its one member. *)

is_out_of_range(code_point) == code_point > \h10FFFF

\* is_surrogate taking the high surrogates alone
is_surrogate_HighOnly(code_point) == code_point >= \hD800 /\ code_point <= \hDBFF

is_surrogate(code_point) == code_point >= \hD800 /\ code_point <= \hDFFF

is_code_point(code_point) == ~is_out_of_range(code_point) /\ ~is_surrogate(code_point)

\* CodePoint{unsafe::no_validation, value}
CodePoint(value) == [m_data |-> value]

to_integer(code_point) == code_point.m_data

\* the unicode::Error of the ErrorCode returned; "eNone" is ErrorCode{}
validate(code_point) ==
    IF is_surrogate(code_point) THEN "eSurrogate"
    ELSE IF is_out_of_range(code_point) THEN "eOutOfRange"
    ELSE "eNone"

\* make_code_point(code_point): the std::expected returned
make_code_point(code_point) ==
    LET error_code == validate(code_point)
    IN  IF error_code # "eNone"
        THEN [has_value |-> FALSE, error |-> error_code]
        ELSE [has_value |-> TRUE, value |-> CodePoint(code_point)]

\* make_code_point(code_point, sanitize_value)
make_code_point_or(code_point, sanitize_value) ==
    IF is_code_point(code_point) THEN CodePoint(code_point) ELSE sanitize_value

-----------------------------------------------------------------------------
(* The state before any operation: the caller's byte range, code point range
   and sink. *)

InitWith(byte_values, max_len, code_point_values, max_cps, sinks) ==
    /\ \E k \in 0..max_len : B \in [1..k -> byte_values]
    /\ \E k \in 0..max_cps : cps \in [1..k -> code_point_values]
    /\ sink \in sinks
    /\ pc = "start"
    /\ pos = 0
    /\ first = 0
    /\ state = eAccept
    /\ out = <<>>
    /\ ret = 0
    /\ trail = <<>>

-----------------------------------------------------------------------------
(* The DFA primitives applied once, at any position of any input *)

InitDFA == InitWith(Bytes, MaxLen, CodePoints, 0, {"back_inserter"})

AdvanceForwardOnce(p) ==
    /\ pc = "start"
    /\ p < Len(B)
    /\ LET r == advance_forward_once(B, p, Len(B))
       IN  /\ first' = r.first
           /\ state' = r.state
    /\ pos' = p
    /\ pc' = "advance_forward_once"
    /\ UNCHANGED <<B, cps, sink, out, ret, trail>>

NextDFA == \E p \in 0..MaxLen : AdvanceForwardOnce(p)

SpecDFA == InitDFA /\ [][NextDFA]_vars

-----------------------------------------------------------------------------
(* advance_forward_once at the first byte of a range that begins with any byte
   value at all *)

\* every value of a char8_t
AllBytes == 0..255

\* The byte values after the first byte: both ends of every class of
\* continuation byte, and a byte that is none.
TailBytes == { \h7F, \h80, \h8F, \h90, \h9F, \hA0, \hBF }

InitLead ==
    /\ \E b \in AllBytes, k \in 0..(MaxLen - 1) :
          \E t \in [1..k -> TailBytes] : B = <<b>> \o t
    /\ cps = <<>>
    /\ sink = "back_inserter"
    /\ pc = "start"
    /\ pos = 0
    /\ first = 0
    /\ state = eAccept
    /\ out = <<>>
    /\ ret = 0
    /\ trail = <<>>

\* find_leading_byte(first, last) over the whole range
FindLeadingByte ==
    /\ pc = "start"
    /\ ret' = find_leading_byte(B, 0, Len(B))
    /\ pc' = "find_leading_byte"
    /\ UNCHANGED <<B, cps, sink, pos, first, state, out, trail>>

NextLead == AdvanceForwardOnce(0) \/ FindLeadingByte

SpecLead == InitLead /\ [][NextLead]_vars

-----------------------------------------------------------------------------
(* The copying and the decoding primitive at the first byte of the range *)

\* copy_and_advance_forward_once(first, last, result) with first at p and the
\* result a back inserter of out
CopyAndAdvanceForwardOnce(p) ==
    /\ pc = "start"
    /\ p < Len(B)
    /\ LET r == copy_and_advance_forward_once(B, p, Len(B))
       IN  /\ first' = r.first
           /\ state' = r.state
           /\ out' = out \o r.copied
    /\ pos' = p
    /\ pc' = "copy_and_advance_forward_once"
    /\ UNCHANGED <<B, cps, sink, ret, trail>>

\* decode_and_advance_forward_once(first, last, out_code_unit_32) with first
\* at p; ret is out_code_unit_32
DecodeAndAdvanceForwardOnce(p) ==
    /\ pc = "start"
    /\ p < Len(B)
    /\ LET r == decode_and_advance_forward_once(B, p, Len(B))
       IN  /\ first' = r.first
           /\ state' = r.state
           /\ ret' = r.code_point
    /\ pos' = p
    /\ pc' = "decode_and_advance_forward_once"
    /\ UNCHANGED <<B, cps, sink, out, trail>>

NextForward == CopyAndAdvanceForwardOnce(0) \/ DecodeAndAdvanceForwardOnce(0)

SpecForward == InitLead /\ [][NextForward]_vars

-----------------------------------------------------------------------------
(* Validation of a byte range *)

Init == InitWith(RangeBytes, MaxLen, CodePoints, 0, {"back_inserter"})

IsValid ==
    /\ pc = "start"
    /\ ret' = is_valid(B, 0, Len(B))
    /\ pc' = "is_valid"
    /\ UNCHANGED <<B, cps, sink, pos, first, state, out, trail>>

FindInvalid ==
    /\ pc = "start"
    /\ ret' = find_invalid(B, 0, Len(B))
    /\ pc' = "find_invalid"
    /\ UNCHANGED <<B, cps, sink, pos, first, state, out, trail>>

\* decode(Iterator, Sentinel) of the whole range, which is not empty (the
\* primitive asserts first != last): the code point, or what is thrown
Decode ==
    /\ pc = "start"
    /\ B # <<>>
    /\ LET r == decode(B, 0, Len(B))
       IN  /\ ret' = [thrown |-> r.thrown, value |-> r.value]
           /\ state' = r.state
           /\ first' = r.first
    /\ pc' = "decode_char"
    /\ UNCHANGED <<B, cps, sink, pos, out, trail>>

\* str_len(Iterator, Sentinel) of the whole range: the length, or the error
\* condition thrown
StrLenReturns ==
    /\ LET r == impl_safe_str_len(B, 0, Len(B))
       IN  /\ ret' = [thrown |-> IF r.state # eAccept THEN "error_condition" ELSE "none",
                      value |-> r.length]
           /\ state' = r.state
    /\ pc' = "str_len_range"
    /\ UNCHANGED <<B, cps, sink, pos, first, out, trail>>

\* BEETLE_ASSERT(first != last) of impl_safe_str_len fails for the empty range:
\* a build with BEETLE_ENABLE_ASSERTS ends the process there
StrLenAssertionFailure ==
    /\ B = <<>>
    /\ pc' = "assertion_failure"
    /\ UNCHANGED <<B, cps, sink, pos, first, state, out, ret, trail>>

StrLenRange ==
    /\ pc = "start"
    /\ \/ StrLenReturns
       \/ StrLenAssertionFailure

Next == IsValid \/ FindInvalid \/ Decode \/ StrLenRange

Spec == Init /\ [][Next]_vars

-----------------------------------------------------------------------------
(* sanitize, and sanitize of what it wrote *)

InitSanitize == InitWith(RangeBytes, MaxLen, CodePoints, 0, {"back_inserter", "pointer"})

Sanitize ==
    /\ pc = "start"
    /\ LET r == sanitize(B, 0, Len(B), sink, replacement_character)
       IN  /\ out' = r.mem
           /\ first' = r.in
    /\ pc' = "sanitize"
    /\ UNCHANGED <<B, cps, sink, pos, state, ret, trail>>

SanitizeAgain ==
    /\ pc = "sanitize"
    /\ ret' = sanitize(out, 0, Len(out), sink, replacement_character).mem
    /\ pc' = "sanitize_again"
    /\ UNCHANGED <<B, cps, sink, pos, first, state, out, trail>>

NextSanitize == Sanitize \/ SanitizeAgain

SpecSanitize == InitSanitize /\ [][NextSanitize]_vars

-----------------------------------------------------------------------------
(* encode of one code point, then decode and str_len of the bytes written *)

InitEncode == InitWith(RangeBytes, 0, CodePoints, MaxCps, {"back_inserter"})

EncodeOne ==
    /\ pc = "start"
    /\ cps # <<>>
    /\ out' = encode(cps[1])
    /\ pc' = "encode_one"
    /\ UNCHANGED <<B, cps, sink, pos, first, state, ret, trail>>

DecodeOne ==
    /\ pc = "encode_one"
    /\ LET r == decode(out, 0, Len(out))
       IN  /\ ret' = [thrown |-> r.thrown, value |-> r.value]
           /\ state' = r.state
    /\ pc' = "decode_one"
    /\ UNCHANGED <<B, cps, sink, pos, first, out, trail>>

\* str_len(Iterator, Sentinel): throws unless impl_safe_str_len ends in Accept
StrLen ==
    /\ pc = "encode_one"
    /\ LET r == impl_safe_str_len(out, 0, Len(out))
       IN  /\ ret' = [thrown |-> IF r.state # eAccept THEN "error_condition" ELSE "none",
                      value |-> r.length]
           /\ state' = r.state
    /\ pc' = "str_len"
    /\ UNCHANGED <<B, cps, sink, pos, first, out, trail>>

NextEncode == EncodeOne \/ DecodeOne \/ StrLen

SpecEncode == InitEncode /\ [][NextEncode]_vars

-----------------------------------------------------------------------------
(* The range decode, then the range encode of the decoded code points, one
   pass of its while loop at a time *)

InitTranscode == InitWith(RangeBytes, MaxLen, CodePoints, 0, {"back_inserter"})

DecodeRange ==
    /\ pc = "start"
    /\ LET r == decode_range(B, 0, Len(B), <<>>)
       IN  /\ cps' = r.out
           /\ first' = r.in
    /\ pc' = "decode"
    /\ UNCHANGED <<B, sink, pos, state, out, ret, trail>>

\* while (first != last) { result = utf8::encode(*first, result); }
\* pos is `first`, the cursor into cps: the body leaves it where it is
EncodeStep ==
    /\ pc \in {"decode", "encode"}
    /\ pos # Len(cps)
    /\ Len(out) < MaxOut
    /\ out' = out \o encode(cps[pos + 1])
    /\ pc' = "encode"
    /\ UNCHANGED <<B, cps, sink, pos, first, state, ret, trail>>

\* return {std::move(first), std::move(result)};
EncodeReturn ==
    /\ pc \in {"decode", "encode"}
    /\ pos = Len(cps)
    /\ ret' = [in |-> pos, out |-> Len(out)]
    /\ pc' = "encode_return"
    /\ UNCHANGED <<B, cps, sink, pos, first, state, out, trail>>

NextTranscode == DecodeRange \/ EncodeStep \/ EncodeReturn

SpecTranscode == InitTranscode /\ [][NextTranscode]_vars

-----------------------------------------------------------------------------
(* Stepping an iterator over a byte range: next_once from begin with bound
   end, prev_once from end with bound begin *)

InitIter == InitWith(RangeBytes, MaxLen, CodePoints, 0, {"back_inserter"})

\* next_once_fn::operator()(iterator, bound): the iterator is returned on
\* Accept, an error condition is thrown otherwise
NextOnce ==
    /\ pc \in {"start", "next_once"}
    /\ state = eAccept
    /\ first # Len(B)
    /\ LET r == advance_forward_once(B, first, Len(B))
       IN  /\ state' = r.state
           /\ first' = IF r.state = eAccept THEN r.first ELSE first
           /\ trail' = IF r.state = eAccept THEN Append(trail, r.first) ELSE trail
    /\ pc' = "next_once"
    /\ UNCHANGED <<B, cps, sink, pos, out, ret>>

NextNext == NextOnce

SpecNext == InitIter /\ [][NextNext]_vars

\* the ending states of the DFA
EndingStates == {eAccept, eErrLead, eErrOvrlg, eErrCont, eErrMiss}

\* the iterator prev_once is given: end(B) for the first step
PrevFrom == IF pc = "start" THEN Len(B) ELSE first

\* prev_once_fn::operator()(iterator, bound) with bound = begin(B), when every
\* byte it reads is a byte of the range
PrevOnceDefined ==
    /\ PrevFrom >= 1
    /\ LET r == advance_backward_once(B, PrevFrom - 1, 0)
       IN  /\ ~r.oob
           /\ state' = r.state
           /\ first' = IF r.state = eAccept THEN r.first ELSE PrevFrom
           /\ trail' = IF r.state = eAccept THEN Append(trail, r.first) ELSE trail
    /\ pc' = "prev_once"
    /\ UNCHANGED <<B, cps, sink, pos, out, ret>>

\* BEETLE_ASSERT(first != last) of advance_backward_once fails when the
\* decremented iterator is the bound: a build with BEETLE_ENABLE_ASSERTS ends
\* the process there, a build without goes on (PrevOnceDefined, PrevOnceUndefined)
PrevOnceAssertionFailure ==
    /\ PrevFrom - 1 = 0
    /\ pc' = "assertion_failure"
    /\ UNCHANGED <<B, cps, sink, pos, first, state, out, ret, trail>>

\* prev_once reads before the first byte of the range: the iterator is already
\* left of the bound, or the walk passed the bound in a working state.  The
\* bytes read there are not the caller's: any ending state, with the cursor
\* anywhere up to four bytes further left.
PrevOnceUndefined ==
    /\ \/ PrevFrom < 1
       \/ /\ PrevFrom >= 1
          /\ advance_backward_once(B, PrevFrom - 1, 0).oob
    /\ \E s \in EndingStates, d \in 1..4 :
          /\ state' = s
          /\ first' = PrevFrom - 1 - d
    /\ pc' = "undefined"
    /\ UNCHANGED <<B, cps, sink, pos, out, ret, trail>>

PrevOnce ==
    /\ pc \in {"start", "prev_once"}
    /\ state = eAccept
    /\ PrevFrom # 0
    /\ \/ PrevOnceDefined
       \/ PrevOnceAssertionFailure
       \/ PrevOnceUndefined

NextIter == NextOnce \/ PrevOnce

SpecIter == InitIter /\ [][NextIter]_vars

-----------------------------------------------------------------------------
(* The loops of the range operations, one iteration a step *)

\* The byte values the loops are given: the zero byte, an ASCII byte, a
\* continuation byte (an illegal first byte) and a leading byte of every length.
LoopBytes == { \h00, \h41, \hBF, \hC2, \hE0, \hF0 }

\* the range operations that loop over a DFA primitive
LoopOps == {"is_valid", "find_invalid", "str_len", "decode", "sanitize", "advance"}

InitLoop == InitWith(LoopBytes, MaxLen, CodePoints, 0, {"back_inserter"})

\* the condition of the while loop of the operation
LoopCondition(op) ==
    /\ first # Len(B)
    /\ op = "str_len" => B[first + 1] # 0

\* the state and the cursor after the primitive the loop of the operation calls
LoopPrimitive(op) ==
    CASE op = "decode" ->
            LET r == decode_and_advance_forward_once(B, first, Len(B))
            IN  [state |-> r.state, first |-> r.first]
      [] op = "sanitize" ->
            LET r == copy_and_advance_forward_once(B, first, Len(B))
            IN  [state |-> r.state, first |-> r.first]
      [] OTHER -> advance_forward_once(B, first, Len(B))

\* One iteration.  A character that is not accepted ends every loop (a break,
\* a return or a throw) but the loop of sanitize, which goes on from the next
\* leading byte.
LoopStep(op) ==
    /\ pc \in {"start", op}
    /\ LoopCondition(op)
    /\ LET r == LoopPrimitive(op)
       IN  /\ state' = r.state
           /\ first' = IF op = "sanitize" /\ r.state # eAccept
                       THEN find_leading_byte(B, r.first, Len(B))
                       ELSE r.first
           /\ pc' = IF op # "sanitize" /\ r.state # eAccept THEN "error" ELSE op
    /\ pos' = first
    /\ UNCHANGED <<B, cps, sink, out, ret, trail>>

\* the loop condition is false: the operation returns
LoopReturn(op) ==
    /\ pc \in {"start", op}
    /\ ~LoopCondition(op)
    /\ pc' = "return"
    /\ UNCHANGED <<B, cps, sink, pos, first, state, out, ret, trail>>

\* advance_backward_once(first, last) at the byte p, with last the position
\* before the first byte of the range
AdvanceBackwardOnce(p) ==
    /\ pc = "start"
    /\ p < Len(B)
    /\ LET r == advance_backward_once(B, p, -1)
       IN  /\ state' = r.state
           /\ first' = r.first
    /\ pos' = p
    /\ pc' = "advance_backward_once"
    /\ UNCHANGED <<B, cps, sink, out, ret, trail>>

NextLoop ==
    \/ \E op \in LoopOps : LoopStep(op)
    \/ \E op \in LoopOps : LoopReturn(op)
    \/ \E p \in 0..MaxLen : AdvanceBackwardOnce(p)

SpecLoop == InitLoop /\ [][NextLoop]_vars /\ WF_vars(NextLoop)

-----------------------------------------------------------------------------
(* The backward primitives at the last byte of the range, with the position
   before the first byte as the bound *)

\* Every byte of the form 11xxxxxx as the first byte, before continuation
\* bytes from both ends of every class; and ranges with bytes of every kind
\* at any place.
MultiByteLeads == \hC0..\hFF

ContinuationBytes == { \h80, \h8F, \h90, \h9F, \hA0, \hBF }

BackwardBytes == { \h00, \h7F, \h80, \h90, \hBF, \hC1, \hC2, \hE0, \hED, \hF0, \hF4 }

InitBackward ==
    \/ /\ \E b \in MultiByteLeads, k \in 0..(MaxLen - 1) :
              \E t \in [1..k -> ContinuationBytes] : B = <<b>> \o t
       /\ cps = <<>>
       /\ sink = "back_inserter"
       /\ pc = "start"
       /\ pos = 0
       /\ first = 0
       /\ state = eAccept
       /\ out = <<>>
       /\ ret = 0
       /\ trail = <<>>
    \/ InitWith(BackwardBytes, MaxLen, CodePoints, 0, {"back_inserter"})

DecodeAndAdvanceBackwardOnceReturns(p) ==
    /\ \E r \in {decode_and_advance_backward_once(B, p, -1, ret)} :
          /\ ~r.oob
          /\ state' = r.state
          /\ first' = r.first
          /\ ret' = r.code_point
    /\ pc' = "decode_and_advance_backward_once"
    /\ UNCHANGED <<B, cps, sink, out, trail>>

\* *first is read at the bound, which is before the first byte of the range
DecodeAndAdvanceBackwardOnceUndefined(p) ==
    /\ decode_and_advance_backward_once(B, p, -1, ret).oob
    /\ pc' = "undefined"
    /\ UNCHANGED <<B, cps, sink, first, state, out, ret, trail>>

\* decode_and_advance_backward_once(first, last, out_code_unit_32) with first
\* at p; ret is out_code_unit_32
DecodeAndAdvanceBackwardOnce(p) ==
    /\ pc = "start"
    /\ p < Len(B)
    /\ pos' = p
    /\ \/ DecodeAndAdvanceBackwardOnceReturns(p)
       \/ DecodeAndAdvanceBackwardOnceUndefined(p)

NextBackward ==
    /\ B # <<>>
    /\ \/ AdvanceBackwardOnce(Len(B) - 1)
       \/ DecodeAndAdvanceBackwardOnce(Len(B) - 1)

SpecBackward == InitBackward /\ [][NextBackward]_vars

-----------------------------------------------------------------------------
(* The walks of advance_forward_once, from the first byte of the range, and of
   advance_backward_once, from the last byte with the position before the
   first byte as the bound, one iteration of the while loop at a time.  trail
   holds the states the walk has been in, ret the index of the table entry
   read last. *)

\* advance_forward_once up to the while loop of advance_mb_forward_once
WalkForwardEnter ==
    /\ pc = "start"
    /\ B # <<>>
    /\ pos' = 0
    /\ first' = 1
    /\ IF is_ascii(B[1])
       THEN /\ state' = eAccept
            /\ trail' = <<>>
            /\ pc' = "forward_return"
       ELSE /\ state' = get_leading_byte_info(B[1]).next_state
            /\ trail' = <<get_leading_byte_info(B[1]).next_state>>
            /\ pc' = "walk_forward"
    /\ UNCHANGED <<B, cps, sink, out, ret>>

\* one iteration of the while loop of advance_mb_forward_once
WalkForwardStep ==
    /\ pc = "walk_forward"
    /\ first # Len(B) /\ can_advance(state)
    /\ ret' = transition_index(state, B[first + 1])
    /\ state' = advance_state_forward(state, B[first + 1])
    /\ trail' = Append(trail, advance_state_forward(state, B[first + 1]))
    /\ first' = first + 1
    /\ UNCHANGED <<B, cps, sink, pc, pos, out>>

\* the loop condition is false: return get_ending_state(state)
WalkForwardReturn ==
    /\ pc = "walk_forward"
    /\ ~(first # Len(B) /\ can_advance(state))
    /\ state' = get_ending_state(state)
    /\ pc' = "forward_return"
    /\ UNCHANGED <<B, cps, sink, pos, first, out, ret, trail>>

\* advance_backward_once up to the while loop of advance_mb_backward_once
WalkBackwardEnter ==
    /\ pc = "start"
    /\ B # <<>>
    /\ pos' = Len(B) - 1
    /\ IF is_ascii(B[Len(B)])
       THEN /\ state' = eAccept
            /\ first' = Len(B) - 2
            /\ trail' = <<>>
            /\ pc' = "backward_return"
       ELSE IF ~is_continuation_byte(B[Len(B)])
       THEN /\ state' = eErrCont
            /\ first' = Len(B) - 1
            /\ trail' = <<>>
            /\ pc' = "backward_return"
       ELSE /\ state' = eS1
            /\ first' = Len(B) - 2
            /\ trail' = <<eS1>>
            /\ pc' = "walk_backward"
    /\ UNCHANGED <<B, cps, sink, out, ret>>

\* one iteration of the while loop of advance_mb_backward_once
WalkBackwardStep ==
    /\ pc = "walk_backward"
    /\ first # -1 /\ can_advance(state)
    /\ ret' = transition_index(state, B[first + 1])
    /\ state' = advance_state_backward(state, B[first + 1])
    /\ trail' = Append(trail, advance_state_backward(state, B[first + 1]))
    /\ first' = first - 1
    /\ UNCHANGED <<B, cps, sink, pc, pos, out>>

WalkBackwardReturn ==
    /\ pc = "walk_backward"
    /\ ~(first # -1 /\ can_advance(state))
    /\ state' = get_ending_state(state)
    /\ pc' = "backward_return"
    /\ UNCHANGED <<B, cps, sink, pos, first, out, ret, trail>>

NextWalk ==
    \/ WalkForwardEnter
    \/ WalkForwardStep
    \/ WalkForwardReturn
    \/ WalkBackwardEnter
    \/ WalkBackwardStep
    \/ WalkBackwardReturn

SpecWalk == InitBackward /\ [][NextWalk]_vars

-----------------------------------------------------------------------------
(* beetle/utf8/iterator.hpp: advance(iterator, n, bound).  The range is given
   whole: the iterator starts at begin(B) with bound end(B) for n > 0, and at
   end(B) with bound begin(B) for n < 0. *)

\* while (n > 0 && iterator != bound) { --n; iterator = next_once(iterator, bound); }
RECURSIVE advance_forward_loop(_, _, _, _)
advance_forward_loop(in, iterator, n, bound) ==
    IF n > 0 /\ iterator # bound
    THEN LET r == advance_forward_once(in, iterator, bound)
         IN  IF r.state # eAccept
             THEN [outcome |-> "thrown", iterator |-> iterator, n |-> n - 1,
                   state |-> r.state, asserts |-> FALSE]
             ELSE advance_forward_loop(in, r.first, n - 1, bound)
    ELSE [outcome |-> "returned", iterator |-> iterator, n |-> n,
          state |-> eAccept, asserts |-> FALSE]

\* while (n < 0 && iterator != bound) { ++n; iterator = prev_once(iterator, bound); }
\* prev_once decrements the iterator before it calls advance_backward_once,
\* whose BEETLE_ASSERT(first != last) fails when that is the bound (asserts);
\* an iterator left of the first byte of the range is undefined.
RECURSIVE advance_backward_loop(_, _, _, _)
advance_backward_loop(in, iterator, n, bound) ==
    IF n < 0 /\ iterator # bound
    THEN IF iterator - 1 < 0
         THEN [outcome |-> "undefined", iterator |-> iterator, n |-> n + 1,
               state |-> eAccept, asserts |-> FALSE]
         ELSE LET r == advance_backward_once(in, iterator - 1, bound)
              IN  IF r.oob \/ (r.state = eAccept /\ r.first < 0)
                  THEN [outcome |-> "undefined", iterator |-> iterator, n |-> n + 1,
                        state |-> r.state, asserts |-> iterator - 1 = bound]
                  ELSE IF r.state # eAccept
                  THEN [outcome |-> "thrown", iterator |-> iterator, n |-> n + 1,
                        state |-> r.state, asserts |-> iterator - 1 = bound]
                  ELSE LET rest == advance_backward_loop(in, r.first, n + 1, bound)
                       IN  [rest EXCEPT !.asserts = @ \/ (iterator - 1 = bound)]
    ELSE [outcome |-> "returned", iterator |-> iterator, n |-> n,
          state |-> eAccept, asserts |-> FALSE]

\* advance_fn::operator()(Iterator&, n, Sentinel)
advance(in, iterator, n, bound) ==
    IF n > 0 THEN advance_forward_loop(in, iterator, n, bound)
    ELSE advance_backward_loop(in, iterator, n, bound)

AdvanceBytes == { \h41, \h80, \hC2, \hE1, \hF5 }

InitAdvance == InitWith(AdvanceBytes, MaxLen, CodePoints, 0, {"back_inserter"})

\* the result of the call: ret holds n as given and n as returned
AdvanceResult(n) ==
    advance(B, IF n > 0 THEN 0 ELSE Len(B), n, IF n > 0 THEN Len(B) ELSE 0)

AdvanceReturns(n) ==
    /\ AdvanceResult(n).outcome = "returned"
    /\ first' = AdvanceResult(n).iterator
    /\ state' = eAccept
    /\ ret' = [given |-> n, n |-> AdvanceResult(n).n]
    /\ pc' = "advance"

AdvanceThrows(n) ==
    /\ AdvanceResult(n).outcome = "thrown"
    /\ first' = AdvanceResult(n).iterator
    /\ state' = AdvanceResult(n).state
    /\ ret' = [given |-> n, n |-> AdvanceResult(n).n]
    /\ pc' = "advance_thrown"

AdvanceUndefined(n) ==
    /\ AdvanceResult(n).outcome = "undefined"
    /\ first' = AdvanceResult(n).iterator
    /\ state' = AdvanceResult(n).state
    /\ ret' = [given |-> n, n |-> AdvanceResult(n).n]
    /\ pc' = "undefined"

AdvanceAssertionFailure(n) ==
    /\ AdvanceResult(n).asserts
    /\ pc' = "assertion_failure"
    /\ ret' = [given |-> n, n |-> n]
    /\ UNCHANGED <<first, state>>

Advance(n) ==
    /\ pc = "start"
    /\ pos' = IF n > 0 THEN 0 ELSE Len(B)
    /\ \/ AdvanceReturns(n)
       \/ AdvanceThrows(n)
       \/ AdvanceUndefined(n)
       \/ AdvanceAssertionFailure(n)
    /\ UNCHANGED <<B, cps, sink, out, trail>>

NextAdvance == \E n \in (0 - MaxLen - 1)..(MaxLen + 1) : Advance(n)

SpecAdvance == InitAdvance /\ [][NextAdvance]_vars

-----------------------------------------------------------------------------
(* The length of a byte range, with the error reported in a condition *)

ConditionBytes == { \h00, \h41, \h80, \hBF, \hC0, \hC2, \hE0, \hF0 }

InitCondition == InitWith(ConditionBytes, MaxLen, CodePoints, 0, {"back_inserter"})

\* str_len(Iterator, Sentinel, std::error_condition&) of the whole range: the
\* length, and the condition, which is written only when the range is invalid
StrLenConditionReturns ==
    /\ LET r == impl_safe_str_len(B, 0, Len(B))
       IN  /\ ret' = [length |-> r.length,
                      condition |-> IF r.state # eAccept
                                    THEN make_error_condition(r.state)
                                    ELSE no_error_condition]
           /\ state' = r.state
    /\ pc' = "str_len_condition"
    /\ UNCHANGED <<B, cps, sink, pos, first, out, trail>>

StrLenCondition ==
    /\ pc = "start"
    /\ \/ StrLenConditionReturns
       \/ StrLenAssertionFailure

NextCondition == StrLenCondition

SpecCondition == InitCondition /\ [][NextCondition]_vars

-----------------------------------------------------------------------------
(* The operations that do not validate *)

UnsafeBytes == { \h00, \h41, \h80, \hBF, \hC2, \hE1, \hF1, \hFF }

InitUnsafe == InitWith(UnsafeBytes, MaxLen, CodePoints, 0, {"back_inserter"})

\* unsafe::next(iterator) with the iterator at p, within the range
UnsafeNextReturns(p) ==
    /\ unsafe_next(B, p) <= Len(B)
    /\ first' = unsafe_next(B, p)
    /\ pc' = "unsafe_next"
    /\ UNCHANGED <<B, cps, sink, state, out, ret, trail>>

\* std::ranges::next steps the iterator beyond the end of the range
UnsafeNextUndefined(p) ==
    /\ unsafe_next(B, p) > Len(B)
    /\ pc' = "undefined"
    /\ UNCHANGED <<B, cps, sink, first, state, out, ret, trail>>

\* BEETLE_ASSERT(is_leading_byte(code_unit)) of char_size_from_leading_byte
UnsafeNextAssertionFailure(p) ==
    /\ ~is_leading_byte(B[p + 1])
    /\ pc' = "assertion_failure"
    /\ UNCHANGED <<B, cps, sink, first, state, out, ret, trail>>

UnsafeNext(p) ==
    /\ pc = "start"
    /\ p < Len(B)
    /\ pos' = p
    /\ \/ UnsafeNextReturns(p)
       \/ UnsafeNextUndefined(p)
       \/ UnsafeNextAssertionFailure(p)

\* unsafe::str_len(first, last) of the whole range
UnsafeStrLenReturns ==
    /\ ~unsafe_str_len(B, 0, Len(B)).beyond
    /\ ret' = unsafe_str_len(B, 0, Len(B)).length
    /\ pc' = "unsafe_str_len"
    /\ UNCHANGED <<B, cps, sink, pos, first, state, out, trail>>

UnsafeStrLenUndefined ==
    /\ unsafe_str_len(B, 0, Len(B)).beyond
    /\ pc' = "undefined"
    /\ UNCHANGED <<B, cps, sink, pos, first, state, out, ret, trail>>

\* BEETLE_ASSERT(first != last), and the assertion of char_size_from_leading_byte
UnsafeStrLenAssertionFailure ==
    /\ B = <<>> \/ unsafe_str_len(B, 0, Len(B)).asserts
    /\ pc' = "assertion_failure"
    /\ UNCHANGED <<B, cps, sink, pos, first, state, out, ret, trail>>

UnsafeStrLen ==
    /\ pc = "start"
    /\ \/ UnsafeStrLenReturns
       \/ UnsafeStrLenUndefined
       \/ UnsafeStrLenAssertionFailure

NextUnsafe == (\E p \in 0..(MaxLen + 1) : UnsafeNext(p)) \/ UnsafeStrLen

SpecUnsafe == InitUnsafe /\ [][NextUnsafe]_vars

-----------------------------------------------------------------------------
(* Inspecting one code unit, which is B[1] *)

InitCodeUnit ==
    /\ InitWith(AllBytes, 1, CodePoints, 0, {"back_inserter"})
    /\ B # <<>>

LeadingByteSize ==
    /\ pc = "start"
    /\ ret' = leading_byte_size(B[1])
    /\ pc' = "leading_byte_size"
    /\ UNCHANGED <<B, cps, sink, pos, first, state, out, trail>>

PeekCharSize ==
    /\ pc = "start"
    /\ ret' = peek_char_size(B[1])
    /\ pc' = "peek_char_size"
    /\ UNCHANGED <<B, cps, sink, pos, first, state, out, trail>>

NextCodeUnit == LeadingByteSize \/ PeekCharSize

SpecCodeUnit == InitCodeUnit /\ [][NextCodeUnit]_vars

-----------------------------------------------------------------------------
(* Validation of a range and of its two parts.  The range is cut at k: the
   parts are ranges of their own, the primitive is called in place at k. *)

\* is_valid of the bytes before k, of the bytes from k on, and of all of them
IsValidOfParts(k) ==
    /\ pc = "start"
    /\ k <= Len(B)
    /\ ret' = [prefix |-> is_valid(SubSeq(B, 1, k), 0, k),
               suffix |-> is_valid(SubSeq(B, k + 1, Len(B)), 0, Len(B) - k),
               whole |-> is_valid(B, 0, Len(B))]
    /\ pos' = k
    /\ pc' = "is_valid_of_parts"
    /\ UNCHANGED <<B, cps, sink, first, state, out, trail>>

NextParts ==
    \/ \E k \in 0..MaxLen : IsValidOfParts(k)
    \/ \E p \in 0..MaxLen : AdvanceForwardOnce(p)

SpecParts == InitCondition /\ [][NextParts]_vars

-----------------------------------------------------------------------------
(* Making a code point of an unsigned integer, which is cps[1] *)

\* The integers a code point is made of: the ends of the range, both sides of
\* both ends of the surrogates, and integers beyond U+10FFFF.
IntegerValues ==
    (\h0..\hF) \cup (\hD7F0..\hD80F) \cup (\hDBF0..\hDC0F) \cup (\hDFF0..\hE00F)
        \cup (\h10FFF0..\h11000F) \cup { \h7FFFFFFF }

\* the code points given as the value to fall back on
SanitizeValues == { CodePoint(\h0), CodePoint(replacement_character), CodePoint(\h10FFFF) }

InitCodePoint ==
    /\ InitWith(RangeBytes, 0, IntegerValues, 1, {"back_inserter"})
    /\ cps # <<>>

Validate ==
    /\ pc = "start"
    /\ ret' = validate(cps[1])
    /\ pc' = "validate"
    /\ UNCHANGED <<B, cps, sink, pos, first, state, out, trail>>

MakeCodePoint ==
    /\ pc = "start"
    /\ ret' = make_code_point(cps[1])
    /\ pc' = "make_code_point"
    /\ UNCHANGED <<B, cps, sink, pos, first, state, out, trail>>

MakeCodePointOr(sanitize_value) ==
    /\ pc = "start"
    /\ ret' = [value |-> make_code_point_or(cps[1], sanitize_value),
               sanitize_value |-> sanitize_value]
    /\ pc' = "make_code_point_or"
    /\ UNCHANGED <<B, cps, sink, pos, first, state, out, trail>>

NextCodePoint ==
    \/ Validate
    \/ MakeCodePoint
    \/ \E sanitize_value \in SanitizeValues : MakeCodePointOr(sanitize_value)

SpecCodePoint == InitCodePoint /\ [][NextCodePoint]_vars

-----------------------------------------------------------------------------
(* RFC 3629 well-formed characters *)

InRange(b, lo, hi) == lo <= b /\ b <= hi

IsCont(b) == InRange(b, \h80, \hBF)

WellFormedChar(w) ==
    \/ Len(w) = 1 /\ InRange(w[1], \h00, \h7F)
    \/ Len(w) = 2 /\ InRange(w[1], \hC2, \hDF) /\ IsCont(w[2])
    \/ Len(w) = 3 /\ w[1] = \hE0 /\ InRange(w[2], \hA0, \hBF) /\ IsCont(w[3])
    \/ Len(w) = 3 /\ (InRange(w[1], \hE1, \hEC) \/ InRange(w[1], \hEE, \hEF))
                  /\ IsCont(w[2]) /\ IsCont(w[3])
    \/ Len(w) = 3 /\ w[1] = \hED /\ InRange(w[2], \h80, \h9F) /\ IsCont(w[3])
    \/ Len(w) = 4 /\ w[1] = \hF0 /\ InRange(w[2], \h90, \hBF) /\ IsCont(w[3]) /\ IsCont(w[4])
    \/ Len(w) = 4 /\ InRange(w[1], \hF1, \hF3) /\ IsCont(w[2]) /\ IsCont(w[3]) /\ IsCont(w[4])
    \/ Len(w) = 4 /\ w[1] = \hF4 /\ InRange(w[2], \h80, \h8F) /\ IsCont(w[3]) /\ IsCont(w[4])

\* the length of the well-formed character that starts at cursor f, 0 if none does
WellFormedLen(in, f) ==
    LET ns == { n \in 1..4 : f + n <= Len(in) /\ WellFormedChar(SubSeq(in, f + 1, f + n)) }
    IN  IF ns = {} THEN 0 ELSE CHOOSE n \in ns : TRUE

\* the cursor of the first byte at or after f that can begin a character
RECURSIVE NextLeading(_, _)
NextLeading(in, f) ==
    IF f < Len(in) /\ ~(InRange(in[f + 1], \h00, \h7F) \/ InRange(in[f + 1], \hC2, \hF4))
    THEN NextLeading(in, f + 1)
    ELSE f

\* the cursor of the first byte of the first ill-formed character, Len(in) if none
RECURSIVE FirstIllFormed(_, _)
FirstIllFormed(in, f) ==
    IF f = Len(in) \/ WellFormedLen(in, f) = 0
    THEN f
    ELSE FirstIllFormed(in, f + WellFormedLen(in, f))

\* U+FFFD in UTF-8
EncodedReplacement == << \hEF, \hBF, \hBD >>

\* every well-formed character unchanged, one U+FFFD for every run from an
\* offending byte up to the next leading byte
RECURSIVE Sanitized(_, _)
Sanitized(in, f) ==
    IF f = Len(in) THEN <<>>
    ELSE IF WellFormedLen(in, f) > 0
    THEN SubSeq(in, f + 1, f + WellFormedLen(in, f)) \o Sanitized(in, f + WellFormedLen(in, f))
    ELSE EncodedReplacement \o Sanitized(in, NextLeading(in, f + 1))

IsPrefix(s, t) == Len(s) <= Len(t) /\ s = SubSeq(t, 1, Len(s))

RECURSIVE Reverse(_)
Reverse(s) == IF s = <<>> THEN <<>> ELSE Append(Reverse(Tail(s)), Head(s))

\* the cursors next_once returns when stepped from f to the end of a valid range
RECURSIVE Boundaries(_, _)
Boundaries(in, f) ==
    IF f = Len(in) THEN <<>>
    ELSE LET r == advance_forward_once(in, f, Len(in))
         IN  IF r.state # eAccept THEN <<>> ELSE <<r.first>> \o Boundaries(in, r.first)

Valid(in) == is_valid(in, 0, Len(in))

-----------------------------------------------------------------------------
(* The claims *)

\* the bytes a primitive consumed
Consumed == SubSeq(B, pos + 1, first)

\* C1: advance_forward_once(p, |B|) returns Accept iff the bytes it consumed are
\* exactly one well-formed RFC 3629 character: no overlong encoding, no
\* surrogate and nothing above U+10FFFF is accepted, every well-formed
\* character is.
C1_AcceptsExactlyRFC3629 ==
    pc = "advance_forward_once" => ((state = eAccept) <=> WellFormedChar(Consumed))

\* C1 witness: a three-byte character with the leading byte ED was accepted
\* from a cursor inside the range
C1_Witness ==
    /\ pc = "advance_forward_once"
    /\ state = eAccept
    /\ Len(Consumed) = 3
    /\ pos = 1
    /\ B[2] = \hED

\* C2: encode(C, sink), then the single-character decode of the bytes written,
\* returns C, and str_len of the bytes written is 1.
C2_EncodeDecodeRoundTrip ==
    /\ pc = "decode_one" => ret = [thrown |-> "none", value |-> cps[1]]
    /\ pc = "str_len" => ret = [thrown |-> "none", value |-> 1]

\* C3: for valid B, the range encode of the range decode of B yields exactly B:
\* what it has written is always the beginning of B, and all of B when it returns.
C3_DecodeEncodeRoundTrip ==
    (Valid(B) /\ pc \in {"encode", "encode_return"}) =>
        /\ IsPrefix(out, B)
        /\ pc = "encode_return" => out = B

\* C4: the output of sanitize is valid UTF-8, whatever the input.
C4_SanitizeOutputValid ==
    (pc = "sanitize" /\ sink = "back_inserter") => Valid(out)

\* C5: sanitize of a valid B writes exactly B.
C5_SanitizePreservesValid ==
    (pc = "sanitize" /\ sink = "back_inserter" /\ Valid(B)) => out = B

\* C6: the output of sanitize is every well-formed character of B unchanged and
\* one replacement character for every maximal invalid subsequence, in order.
C6_SanitizeOneReplacementPerRun ==
    (pc = "sanitize" /\ sink = "back_inserter") => out = Sanitized(B, 0)

\* C7: sanitize is idempotent: sanitize of its own output writes that output.
C7_SanitizeIdempotent ==
    (pc = "sanitize_again" /\ sink = "back_inserter") => ret = out

\* C8: find_invalid(B) is end(B) iff is_valid(B); otherwise it is the cursor of
\* the first byte of the first ill-formed character, so the range before it is
\* valid.
C8_FindInvalidBoundary ==
    pc = "find_invalid" =>
        /\ (ret = Len(B)) <=> Valid(B)
        /\ ret = FirstIllFormed(B, 0)
        /\ Valid(SubSeq(B, 1, ret))

\* the walk of next_once is over: it is at the bound, or it has thrown
NextWalkDone == pc \in {"start", "next_once"} /\ (first = Len(B) \/ state # eAccept)

\* C9: is_valid(B) iff stepping next_once from begin(B) with bound end(B)
\* reaches end(B) without an error.
C9_ValidatorAgreesWithIterator ==
    NextWalkDone => (Valid(B) <=> (first = Len(B) /\ state = eAccept))

\* C9 witness: a walk of two steps, one of them over a multi-byte character,
\* reached the end of a valid range
C9_Witness ==
    /\ pc = "next_once"
    /\ first = Len(B)
    /\ state = eAccept
    /\ Len(trail) = 2
    /\ Len(B) > 2
    /\ Valid(B)

\* C10: for valid B, prev_once stepped from end(B) with bound begin(B) raises no
\* error and returns the cursors next_once returns, in reverse order, down to
\* begin(B).
C10_BackwardEqualsForward ==
    Valid(B) =>
        /\ pc \notin {"assertion_failure", "undefined"}
        /\ pc = "prev_once" =>
              /\ state = eAccept
              /\ IsPrefix(<<Len(B)>> \o trail, Reverse(<<0>> \o Boundaries(B, 0)))


\* a range that begins with an overlong encoding
Overlong(w) ==
    /\ Len(w) >= 1
    /\ \/ w[1] \in { \hC0, \hC1 }
       \/ Len(w) >= 2 /\ w[1] = \hE0 /\ InRange(w[2], \h80, \h9F)
       \/ Len(w) >= 2 /\ w[1] = \hF0 /\ InRange(w[2], \h80, \h8F)

\* C11: a range that begins with a leading byte C0 or C1, with E0 and a byte
\* in 80-9F, or with F0 and a byte in 80-8F ends the forward DFA in ErrOvrlg,
\* the error kind OverlongEncoded, whatever bytes follow, and is not valid.
C11_OverlongRejected ==
    (pc = "advance_forward_once" /\ pos = 0 /\ Overlong(B)) =>
        /\ state = eErrOvrlg
        /\ ending_state_to_error(state) = eOverlongEncoded
        /\ ~Valid(B)

\* C11 witness: the four-byte form F0 8F xx yy was rejected
C11_Witness ==
    /\ pc = "advance_forward_once"
    /\ pos = 0
    /\ Len(B) = 4
    /\ B[1] = \hF0
    /\ B[2] = \h8F
    /\ state = eErrOvrlg


\* advance_forward_once has run from the first byte of a range of at least n bytes
RanFromBegin(n) == pc = "advance_forward_once" /\ pos = 0 /\ Len(B) >= n

\* C12: a range that begins ED xx yy with xx in A0-BF (an encoded surrogate) is
\* rejected by the forward DFA with ErrCont, the error kind ContinuationByte,
\* at the second byte: yy is not consumed, whatever it is.
C12_SurrogateRejected ==
    (RanFromBegin(3) /\ B[1] = \hED /\ InRange(B[2], \hA0, \hBF)) =>
        /\ state = eErrCont
        /\ ending_state_to_error(state) = eContinuationByte
        /\ first = 2
        /\ ~Valid(B)

\* C12 witness: ED BF BF, the encoding of U+DFFF, was rejected
C12_Witness ==
    /\ RanFromBegin(3)
    /\ B = << \hED, \hBF, \hBF >>
    /\ state = eErrCont

\* C13: F4 xx yy zz with xx in 80-8F and yy, zz continuation bytes is accepted
\* and valid; a range that begins F4 xx with xx in 90-BF is rejected with
\* ErrCont, the error kind ContinuationByte.
C13_UpperBound ==
    /\ (RanFromBegin(4) /\ B[1] = \hF4 /\ InRange(B[2], \h80, \h8F)
            /\ IsCont(B[3]) /\ IsCont(B[4])) =>
          /\ state = eAccept
          /\ first = 4
          /\ Len(B) = 4 => Valid(B)
    /\ (RanFromBegin(2) /\ B[1] = \hF4 /\ InRange(B[2], \h90, \hBF)) =>
          /\ state = eErrCont
          /\ ending_state_to_error(state) = eContinuationByte
          /\ ~Valid(B)

\* C13 witness: F4 8F BF BF, the encoding of U+10FFFF, was accepted
C13_Witness ==
    /\ RanFromBegin(4)
    /\ B = << \hF4, \h8F, \hBF, \hBF >>
    /\ state = eAccept

\* C15: a first byte in 80-BF or F5-FF gives ErrLead (LeadingByte), a first byte
\* C0 or C1 gives ErrOvrlg; either way exactly one byte is consumed.
C15_BadLeadingByte ==
    /\ (RanFromBegin(1) /\ (InRange(B[1], \h80, \hBF) \/ InRange(B[1], \hF5, \hFF))) =>
          /\ state = eErrLead
          /\ ending_state_to_error(state) = eLeadingByte
          /\ first = 1
    /\ (RanFromBegin(1) /\ B[1] \in { \hC0, \hC1 }) =>
          /\ state = eErrOvrlg
          /\ first = 1

\* C15 witness: a stray continuation byte with bytes after it was classified
C15_Witness ==
    /\ RanFromBegin(3)
    /\ B[1] = \h89
    /\ state = eErrLead
    /\ first = 1


\* The bytes that complete a truncated character if any bytes do: continuation
\* bytes 80, after the second byte A0 that E0 needs or the 90 that F0 needs.
Completions ==
    { << \h80 >>, << \h80, \h80 >>, << \h80, \h80, \h80 >>,
      << \hA0, \h80 >>, << \h90, \h80, \h80 >> }

\* w is a non-empty proper prefix of a well-formed multi-byte character
TruncatedChar(w) ==
    /\ Len(w) \in 1..3
    /\ is_mb_leading_byte(w[1])
    /\ \E t \in Completions : WellFormedChar(w \o t)

\* C14: when the range ends inside a well-formed multi-byte character the
\* forward primitive returns ErrMiss at the end of the range, the error kind is
\* MissingByte and the range is not valid.
C14_TruncatedIsMissingByte ==
    (pc = "advance_forward_once" /\ TruncatedChar(SubSeq(B, pos + 1, Len(B)))) =>
        /\ state = eErrMiss
        /\ ending_state_to_error(state) = eMissingByte
        /\ first = Len(B)
        /\ ~is_valid(B, pos, Len(B))

\* C14 witness: a four-byte character cut after its third byte, after a
\* character of its own
C14_Witness ==
    /\ pc = "advance_forward_once"
    /\ pos = 1
    /\ Len(B) = 4
    /\ B[2] = \hF0
    /\ TruncatedChar(SubSeq(B, 2, 4))
    /\ state = eErrMiss


\* a step of a loop: the primitive moved the cursor or returned an error state,
\* and the loop goes round again only with the cursor further on
LoopProgress ==
    /\ pc' \in LoopOps \cup {"error"} => (first' > first \/ state' # eAccept)
    /\ pc' \in LoopOps => first' > first
    /\ pc' = "advance_backward_once" => (first' < pos' \/ state' # eAccept)

\* the operation is over
LoopDone == pc \in {"return", "error", "advance_backward_once"}

RECURSIVE EncodeConcat(_)
EncodeConcat(cs) ==
    IF cs = <<>> THEN <<>> ELSE encode(Head(cs)) \o EncodeConcat(Tail(cs))

\* C17: the range encode over n code points writes the n single-code-point
\* encodings in order and no more, and returns with an input iterator equal to
\* last and an output iterator past the last byte written.
C17_RangeEncodeConcatenates ==
    pc \in {"encode", "encode_return"} =>
        /\ IsPrefix(out, EncodeConcat(cps))
        /\ pc = "encode_return" =>
              /\ out = EncodeConcat(cps)
              /\ ret = [in |-> Len(cps), out |-> Len(out)]


\* the number of well-formed characters from cursor f up to the first
\* ill-formed one
RECURSIVE WellFormedCount(_, _)
WellFormedCount(in, f) ==
    IF f = Len(in) \/ WellFormedLen(in, f) = 0
    THEN 0
    ELSE 1 + WellFormedCount(in, f + WellFormedLen(in, f))

\* C18: the range decode writes one code point for every character before the
\* first ill-formed one; the input cursor it returns is last iff the whole range
\* was valid, and otherwise the first byte of the offending character.
C18_RangeDecodeCursor ==
    pc = "decode" =>
        /\ Len(cps) = WellFormedCount(B, 0)
        /\ (first = Len(B)) <=> Valid(B)
        /\ first = FirstIllFormed(B, 0)


\* the error states of the DFA
ErrorStates == {eErrLead, eErrOvrlg, eErrCont, eErrMiss}

\* C19: the single-character decode returns a code point iff the range is
\* exactly one well-formed character; an ill-formed first character throws the
\* error condition of the DFA's ending state, a well-formed first character
\* with bytes after it throws the length error, which is none of those.
C19_DecodeOneCharacter ==
    pc = "decode_char" =>
        /\ ret.thrown = "none" <=> WellFormedChar(B)
        /\ WellFormedLen(B, 0) = 0 =>
              /\ ret.thrown = "error_condition"
              /\ state \in ErrorStates
              /\ ending_state_to_error(state) \in
                    {eLeadingByte, eOverlongEncoded, eContinuationByte, eMissingByte}
        /\ (WellFormedLen(B, 0) > 0 /\ WellFormedLen(B, 0) < Len(B)) =>
              /\ ret.thrown = "length_error"
              /\ state = eAccept

\* C19 witness: a three-byte character with one byte after it threw the length error
C19_Witness ==
    /\ pc = "decode_char"
    /\ Len(B) = 4
    /\ first = 3
    /\ ret.thrown = "length_error"


\* the bytes of a range before its first zero byte, all of them if it has none
RECURSIVE BeforeZero(_)
BeforeZero(w) ==
    IF w = <<>> \/ Head(w) = 0 THEN <<>> ELSE <<Head(w)>> \o BeforeZero(Tail(w))

\* C20: the checked str_len returns the number of well-formed characters before
\* the first zero byte, or in the whole range when it has none; the bytes after
\* the first zero byte are neither counted nor validated, and an ill-formed
\* character before it is thrown as an error condition.
C20_StrLenCountsToZero ==
    pc = "str_len_range" =>
        IF Valid(BeforeZero(B))
        THEN ret = [thrown |-> "none", value |-> WellFormedCount(BeforeZero(B), 0)]
        ELSE ret.thrown = "error_condition"

\* C20 witness: two characters were counted before a zero byte and an
\* ill-formed byte after it was not looked at
C20_Witness ==
    /\ pc = "str_len_range"
    /\ Len(B) = 4
    /\ B[3] = 0
    /\ ~Valid(B)
    /\ ret = [thrown |-> "none", value |-> 2]


\* a byte that is ASCII or the leading byte of a multi-byte character
LeadingByte(b) == b <= \h7F \/ (\hC2 <= b /\ b <= \hF4)

\* C21: find_leading_byte returns the position of the first byte of the range
\* that is at most 7F or in C2-F4, and last when there is none, whatever
\* bytes follow it.
C21_FindLeadingByte ==
    pc = "find_leading_byte" =>
        /\ ret \in 0..Len(B)
        /\ \A i \in 1..ret : ~LeadingByte(B[i])
        /\ ret < Len(B) => LeadingByte(B[ret + 1])

\* C21 witness: two bytes that begin no character were skipped, and the leading
\* byte found is followed by a byte
C21_Witness ==
    /\ pc = "find_leading_byte"
    /\ Len(B) = 4
    /\ B[1] = \hF5
    /\ ret = 2


\* the number of bytes of the UTF-8 encoding of a code point
EncodedLength(c) ==
    IF c <= \h7F THEN 1 ELSE IF c <= \h7FF THEN 2 ELSE IF c <= \hFFFF THEN 3 ELSE 4

\* C22: for a valid code point encode writes 1 byte up to U+007F, 2 up to
\* U+07FF, 3 up to U+FFFF and 4 above, and the bytes written are exactly one
\* well-formed character, on which is_valid holds.
C22_EncodeLengthAndForm ==
    pc = "encode_one" =>
        /\ Len(out) = EncodedLength(cps[1])
        /\ WellFormedChar(out)
        /\ Valid(out)

\* C22 witness: a code point of the two-byte range was encoded
C22_Witness ==
    /\ pc = "encode_one"
    /\ cps[1] = \hA3
    /\ Len(out) = 2


\* a Unicode scalar value
ScalarValue(v) == v <= \h10FFFF /\ ~(\hD800 <= v /\ v <= \hDFFF)

\* C23: making a code point of v succeeds, with to_integer giving v back, iff
\* v is at most 10FFFF and no surrogate; it fails with Surrogate for v in
\* D800-DFFF and with OutOfRange for v above 10FFFF; the form with a fallback
\* returns the fallback when v is invalid and the code point of v when it is not.
C23_CodePointConstruction ==
    /\ pc = "make_code_point" =>
          /\ ret.has_value <=> ScalarValue(cps[1])
          /\ ret.has_value => to_integer(ret.value) = cps[1]
          /\ (\hD800 <= cps[1] /\ cps[1] <= \hDFFF) =>
                (~ret.has_value /\ ret.error = "eSurrogate")
          /\ cps[1] > \h10FFFF => (~ret.has_value /\ ret.error = "eOutOfRange")
    /\ pc = "make_code_point_or" =>
          IF ScalarValue(cps[1])
          THEN to_integer(ret.value) = cps[1]
          ELSE ret.value = ret.sanitize_value

\* C23 witness: the last surrogate was refused as a surrogate
C23_Witness ==
    /\ pc = "make_code_point"
    /\ cps[1] = \hDFFF
    /\ ret = [has_value |-> FALSE, error |-> "eSurrogate"]


-----------------------------------------------------------------------------
\* C24: ending_state_to_error maps ErrLead to LeadingByte, ErrOvrlg to
\* OverlongEncoded, ErrCont to ContinuationByte and ErrMiss to MissingByte
\* and to nothing else, and the condition made of each kind carries the
\* message "expected a leading byte", "detected overlong encoding",
\* "expected a continuation byte" and "expected more bytes" respectively.
ErrorKind(ending_state) ==
    CASE ending_state = eErrLead -> eLeadingByte
      [] ending_state = eErrOvrlg -> eOverlongEncoded
      [] ending_state = eErrCont -> eContinuationByte
      [] ending_state = eErrMiss -> eMissingByte

ErrorText(ending_state) ==
    CASE ending_state = eErrLead -> "expected a leading byte"
      [] ending_state = eErrOvrlg -> "detected overlong encoding"
      [] ending_state = eErrCont -> "expected a continuation byte"
      [] ending_state = eErrMiss -> "expected more bytes"

C24_ErrorKindsAndMessages ==
    (pc = "str_len_condition" /\ state # eAccept) =>
        /\ state \in ErrorStates
        /\ ret.condition.category = "UTF-8"
        /\ ret.condition.value = ErrorKind(state)
        /\ ret.condition.value \notin {eNone, eUnknown}
        /\ condition_message(ret.condition) = ErrorText(state)
        /\ message(ret.condition.value) = ErrorText(state)

C24_Witness ==
    /\ pc = "str_len_condition"
    /\ state = eErrOvrlg
    /\ ret.condition.value = eOverlongEncoded
    /\ condition_message(ret.condition) = "detected overlong encoding"


-----------------------------------------------------------------------------
\* the cursors at which a character of a valid range begins
CharacterBoundaries(in) ==
    {0} \cup { Boundaries(in, 0)[i] : i \in 1..Len(Boundaries(in, 0)) }

NoZeroByte(in) == \A i \in 1..Len(in) : in[i] # 0

\* C25: for a valid B without zero bytes the unchecked operations agree with
\* the checked ones: unsafe::next from a character boundary returns the cursor
\* the checked next_once returns, and unsafe::str_len(B) is the checked
\* str_len(B); neither leaves the range.
C25_UnsafeAgreesWithChecked ==
    (Valid(B) /\ NoZeroByte(B)) =>
        /\ (pc = "unsafe_next" /\ pos \in CharacterBoundaries(B)) =>
              /\ advance_forward_once(B, pos, Len(B)).state = eAccept
              /\ first = advance_forward_once(B, pos, Len(B)).first
        /\ pc = "unsafe_str_len" =>
              /\ impl_safe_str_len(B, 0, Len(B)).state = eAccept
              /\ ret = impl_safe_str_len(B, 0, Len(B)).length
        /\ pc = "undefined" => pos \notin CharacterBoundaries(B)
        /\ pc = "assertion_failure" => (B = <<>> \/ pos \notin CharacterBoundaries(B))

\* C25 witness: unsafe::next stepped over the second character, of three
\* bytes, of a valid range
C25_Witness ==
    /\ Valid(B) /\ NoZeroByte(B)
    /\ pc = "unsafe_next"
    /\ pos = 1
    /\ first = 4
    /\ pos \in CharacterBoundaries(B)


-----------------------------------------------------------------------------
\* C26: peek_char_size is total over the 256 byte values and never throws:
\* it returns 1 for 00-7F, 2 for C0-DF, 3 for E0-EF, 4 for F0-F7, and no value
\* for the continuation bytes 80-BF and for F8-FF.
C26_PeekCharSize ==
    pc = "peek_char_size" =>
        /\ ~ret.terminated
        /\ InRange(B[1], \h00, \h7F) => (ret.has_value /\ ret.value = 1)
        /\ InRange(B[1], \h80, \hBF) => ~ret.has_value
        /\ InRange(B[1], \hC0, \hDF) => (ret.has_value /\ ret.value = 2)
        /\ InRange(B[1], \hE0, \hEF) => (ret.has_value /\ ret.value = 3)
        /\ InRange(B[1], \hF0, \hF7) => (ret.has_value /\ ret.value = 4)
        /\ InRange(B[1], \hF8, \hFF) => ~ret.has_value

\* C26 witness: peek_char_size returned 4 for F7, the last leading byte
C26_Witness ==
    /\ pc = "peek_char_size"
    /\ B = << \hF7 >>
    /\ ret.has_value
    /\ ret.value = 4


-----------------------------------------------------------------------------
\* C27: after copy_and_advance_forward_once moved the cursor from p to q, the
\* bytes it appended to the sink are exactly B[p..q), in order and with the
\* leading byte, whatever state it returns.
C27_CopiesConsumedBytes ==
    pc = "copy_and_advance_forward_once" => out = Consumed

-----------------------------------------------------------------------------
\* the scalar value a well-formed character encodes (RFC 3629, section 3)
EncodedScalar(w) ==
    CASE Len(w) = 1 -> w[1]
      [] Len(w) = 2 -> (w[1] - \hC0) * 64 + (w[2] - \h80)
      [] Len(w) = 3 -> (w[1] - \hE0) * 4096 + (w[2] - \h80) * 64 + (w[3] - \h80)
      [] Len(w) = 4 -> (w[1] - \hF0) * 262144 + (w[2] - \h80) * 4096
                           + (w[3] - \h80) * 64 + (w[4] - \h80)

\* C28: whenever decode_and_advance_forward_once returns Accept, the value it
\* accumulated is the scalar value the consumed bytes encode (the payload bits
\* of the leading byte, then six bits of every continuation byte), and it is a
\* code point: at most 10FFFF and no surrogate.
C28_DecodedValue ==
    (pc = "decode_and_advance_forward_once" /\ state = eAccept) =>
        /\ WellFormedChar(Consumed)
        /\ ret = EncodedScalar(Consumed)
        /\ ScalarValue(ret)
        /\ is_code_point(ret)

\* C28 witness: F4 8F BF BF was decoded to U+10FFFF
C28_Witness ==
    /\ pc = "decode_and_advance_forward_once"
    /\ state = eAccept
    /\ Consumed = << \hF4, \h8F, \hBF, \hBF >>
    /\ ret = \h10FFFF


-----------------------------------------------------------------------------
\* C29: for every well-formed character w, with the bound just before its
\* first byte, decode_and_advance_backward_once started at the last byte of w
\* returns Accept, steps over exactly the bytes of w, and yields the code
\* point decode_and_advance_forward_once yields over w.
C29_BackwardDecodeOfWellFormed ==
    (WellFormedChar(B) /\ pc \in {"decode_and_advance_backward_once", "undefined"}) =>
        /\ pc = "decode_and_advance_backward_once"
        /\ state = eAccept
        /\ first = -1
        /\ decode_and_advance_forward_once(B, 0, Len(B)).state = eAccept
        /\ ret = decode_and_advance_forward_once(B, 0, Len(B)).code_point

\* C29 witness: the three bytes of ED 9F BF were decoded backward to U+D7FF
C29_Witness ==
    /\ pc = "decode_and_advance_backward_once"
    /\ B = << \hED, \h9F, \hBF >>
    /\ state = eAccept
    /\ first = -1
    /\ ret = \hD7FF

-----------------------------------------------------------------------------
\* C30: the backward DFA accepts the language of the forward DFA: for every w
\* of 2 to 4 bytes, with the bound just before w, advance_backward_once
\* started at the last byte returns Accept having stepped over all of w iff
\* advance_forward_once over w returns Accept having consumed all of w; no
\* surrogate ED A0..BF xx is accepted backward.
C30_BackwardAcceptsForwardLanguage ==
    (pc = "advance_backward_once" /\ Len(B) \in 2..4) =>
        /\ (state = eAccept /\ first = -1)
              <=> /\ advance_forward_once(B, 0, Len(B)).state = eAccept
                  /\ advance_forward_once(B, 0, Len(B)).first = Len(B)
        /\ (Len(B) = 3 /\ B[1] = \hED /\ InRange(B[2], \hA0, \hBF) /\ IsCont(B[3]))
              => state # eAccept

\* C30 witness: F0 90 80 80 was accepted backward, all four bytes stepped over
C30_Witness ==
    /\ pc = "advance_backward_once"
    /\ B = << \hF0, \h90, \h80, \h80 >>
    /\ state = eAccept
    /\ first = -1


-----------------------------------------------------------------------------
\* C31: ErrMiss is never the output of a transition: no entry of the forward
\* or of the backward transition table is ErrMiss, and a primitive returns
\* ErrMiss only when the input is exhausted (the cursor is at the bound) while
\* the DFA is in a working state.
C31_ErrMissOnlyAtEndOfInput ==
    /\ (pc \in {"advance_backward_once", "decode_and_advance_backward_once"}
           /\ state = eErrMiss) => first = -1
    /\ \A i \in DOMAIN forward_transitions : forward_transitions[i] # eErrMiss
    /\ \A i \in DOMAIN backward_transitions : backward_transitions[i] # eErrMiss


-----------------------------------------------------------------------------
\* the bytes a walk has stepped over, in either direction
Stepped == IF first >= pos THEN first - pos ELSE pos - first

\* C32: in every walk of a forward or backward primitive, once the state is
\* Accept or an error state no transition is taken and no byte is consumed
\* any more; a working state is entered from the leading byte or from a
\* working state only; and the state returned is never a working state.
C32_TerminalStatesEndTheWalk ==
    /\ \A i \in 1..(Len(trail) - 1) : can_advance(trail[i])
    /\ pc \in {"walk_forward", "walk_backward"} =>
          /\ trail # <<>>
          /\ state = trail[Len(trail)]
          /\ Stepped = Len(trail)
    /\ pc \in {"forward_return", "backward_return"} =>
          /\ ~can_advance(state)
          /\ state \in {eAccept} \cup ErrorStates
          /\ trail # <<>> => Stepped = Len(trail)
          /\ (trail # <<>> /\ ~can_advance(trail[Len(trail)])) => state = trail[Len(trail)]

\* C32 witness: a forward walk went through two working states into an error
\* state and returned it, with a byte of the range left unread
C32_Witness ==
    /\ pc = "forward_return"
    /\ Len(trail) = 3
    /\ can_advance(trail[1]) /\ can_advance(trail[2])
    /\ state \in ErrorStates
    /\ state = trail[3]
    /\ first < Len(B)


-----------------------------------------------------------------------------
\* w is a well-formed character or the beginning of one
Viable(w) == WellFormedChar(w) \/ TruncatedChar(w)

\* how many bytes from cursor p on it takes to leave every well-formed
\* character: the last of them is the offending byte; 0 if the range ends first
OffendingLength(in, p) ==
    LET bad == { k \in 1..(Len(in) - p) : ~Viable(SubSeq(in, p + 1, p + k)) }
    IN  IF bad = {} THEN 0 ELSE CHOOSE k \in bad : \A j \in bad : k <= j

\* C33: a forward primitive called with cursor p < last leaves the cursor at
\* a q with p < q <= last and q - p <= 4, the same q for the advancing, the
\* decoding and the copying primitive; on Accept q is one past the last byte
\* of the character, and on an error other than ErrMiss q is one past the
\* offending byte, so no byte beyond it is consumed.
C33_ForwardCursor ==
    pc \in {"copy_and_advance_forward_once", "decode_and_advance_forward_once"} =>
        /\ pos < first /\ first <= Len(B) /\ first - pos <= 4
        /\ advance_forward_once(B, pos, Len(B)).first = first
        /\ advance_forward_once(B, pos, Len(B)).state = state
        /\ state = eAccept => WellFormedChar(Consumed)
        /\ state \in ErrorStates \ {eErrMiss} =>
              /\ OffendingLength(B, pos) # 0
              /\ first = pos + OffendingLength(B, pos)
        /\ state = eErrMiss => (first = Len(B) /\ OffendingLength(B, pos) = 0)

\* C33 witness: decoding F0 90 7F .. stopped one past the third byte, with a
\* byte of the range left
C33_Witness ==
    /\ pc = "decode_and_advance_forward_once"
    /\ Len(B) = 4
    /\ SubSeq(B, 1, 3) = << \hF0, \h90, \h7F >>
    /\ state = eErrCont
    /\ first = 3


-----------------------------------------------------------------------------
\* the cursors at which the characters of the range begin, and its end, up to
\* the first character that is not well-formed
Cursors(in) == <<0>> \o Boundaries(in, 0)

Smaller(a, b) == IF a <= b THEN a ELSE b

\* C34: advance(it, n, bound) with n > 0 moves it forward by k = min(n, the
\* characters between it and bound) whole characters and returns n - k; with
\* n < 0 it moves it backward by whole characters toward bound in the same
\* way and returns the remaining negative count; the first character that is
\* not well-formed aborts the walk with its error.
C34_AdvanceByWholeCharacters ==
    /\ (pc \in {"advance", "advance_thrown"} /\ ret.given > 0) =>
          LET k == Smaller(ret.given, Len(Boundaries(B, 0)))
          IN  IF k = ret.given \/ Valid(B)
              THEN /\ pc = "advance"
                   /\ first = Cursors(B)[k + 1]
                   /\ ret.n = ret.given - k
              ELSE /\ pc = "advance_thrown"
                   /\ state = advance_forward_once(B, Cursors(B)[k + 1], Len(B)).state
                   /\ state \in ErrorStates
    /\ (pc # "start" /\ ret.given < 0 /\ Valid(B)) =>
          LET k == Smaller(0 - ret.given, Len(Boundaries(B, 0)))
          IN  /\ pc = "advance"
              /\ first = Reverse(Cursors(B))[k + 1]
              /\ ret.n = ret.given + k


-----------------------------------------------------------------------------
\* the bytes sanitize flushes, flush after flush
Flushed == sanitize(B, 0, Len(B), "back_inserter", replacement_character).mem

\* C35: sanitize writes every output byte to the sink once, in order, at
\* successive output positions: a flush overwrites no earlier position, the
\* sink holds the flushes one after the other, the output iterator returned
\* is one past the last byte written and the input iterator returned is last.
C35_SanitizeWritesInOrder ==
    pc = "sanitize" =>
        /\ first = Len(B)
        /\ out = Flushed
        /\ sink = "pointer" => sanitize_out(0) = Len(Flushed)


-----------------------------------------------------------------------------
\* C36: the str_len that does not throw returns the number of characters and
\* leaves the condition as it was when the bytes before the first zero byte
\* are all well-formed; when a character is ill-formed it returns 0, not the
\* count of the valid prefix, and sets the condition to the error kind of the
\* first ill-formed character.
C36_StrLenCondition ==
    pc = "str_len_condition" =>
        LET w == BeforeZero(B)
            bad == FirstIllFormed(w, 0)
        IN  IF bad = Len(w)
            THEN /\ ret.length = WellFormedCount(w, 0)
                 /\ ret.condition = no_error_condition
            ELSE /\ ret.length = 0
                 /\ advance_forward_once(B, bad, Len(B)).state \in ErrorStates
                 /\ ret.condition =
                        [value |-> ErrorKind(advance_forward_once(B, bad, Len(B)).state),
                         category |-> "UTF-8"]

\* C36 witness: one character was counted before an overlong encoding, and 0
\* was returned with the condition OverlongEncoded
C36_Witness ==
    /\ pc = "str_len_condition"
    /\ Len(B) >= 3
    /\ SubSeq(B, 1, 3) = << \h41, \hE0, \h80 >>
    /\ ret.length = 0
    /\ ret.condition.value = eOverlongEncoded


-----------------------------------------------------------------------------
\* C37: no precondition assertion fails in a public range operation, on any
\* input, the empty range and the ranges of one byte included: every DFA
\* primitive is entered with first != last.
C37_NoAssertionFails == pc # "assertion_failure"


-----------------------------------------------------------------------------
\* the bytes of the range from cursor p on, as a range of their own
From(p) == SubSeq(B, p + 1, Len(B))

\* C38: validation is compositional, no state being carried from one
\* character to the next: when is_valid(A), is_valid(A ++ B) iff is_valid(B);
\* and what a primitive started at a character boundary returns depends on
\* the bytes from that boundary on alone.
C38_ValidationComposes ==
    /\ (pc = "is_valid_of_parts" /\ ret.prefix) => (ret.whole <=> ret.suffix)
    /\ pc = "advance_forward_once" =>
          /\ state = advance_forward_once(From(pos), 0, Len(B) - pos).state
          /\ first = pos + advance_forward_once(From(pos), 0, Len(B) - pos).first

\* C38 witness: a valid range was cut between its two characters into two
\* valid parts, the second a character of two bytes
C38_Witness ==
    /\ pc = "is_valid_of_parts"
    /\ pos = 1
    /\ Len(B) = 3
    /\ B[2] = \hC2
    /\ ret = [prefix |-> TRUE, suffix |-> TRUE, whole |-> TRUE]


-----------------------------------------------------------------------------
\* the state a walk was in when it read the table last
LookedUpFrom == trail[Len(trail) - 1]

\* C39: every transition lookup reads an entry the table lists: in a forward
\* walk the state is one of S1..S7 and the index state * 12 + class is below
\* 84; in a backward walk the state is one of S1..S5, S6 and S7 are never
\* entered, and the index is below 60, so the unlisted tail of the 72 slots
\* of the backward table is never read.
C39_LookupsWithinTheTables ==
    /\ (pc \in {"walk_forward", "forward_return"} /\ Len(trail) >= 2) =>
          /\ LookedUpFrom \in {eS1, eS2, eS3, eS4, eS5, eS6, eS7}
          /\ ret >= LookedUpFrom * 12 /\ ret < LookedUpFrom * 12 + 12
          /\ ret < 84
          /\ ret + 1 \in DOMAIN forward_transitions
    /\ (pc \in {"walk_backward", "backward_return"} /\ Len(trail) >= 2) =>
          /\ LookedUpFrom \in {eS1, eS2, eS3, eS4, eS5}
          /\ ret >= LookedUpFrom * 12 /\ ret < LookedUpFrom * 12 + 12
          /\ ret < 60
    /\ pc \in {"walk_backward", "backward_return"} =>
          \A i \in 1..Len(trail) : trail[i] \notin {eS6, eS7}

\* C39 witness: the backward walk over F0 90 80 80 read the row of S5 last,
\* at index 56
C39_Witness ==
    /\ pc = "backward_return"
    /\ trail = <<eS1, eS2, eS5, eAccept>>
    /\ ret = 56
    /\ state = eAccept


-----------------------------------------------------------------------------
\* C40: for every byte b from 80 on, the payload the leading-byte table
\* stores is the value-bearing bits of b: b & 1F for C2..DF, b & 0F for
\* E0..EF, b & 07 for F0..F4, and b itself in every row whose next_state is
\* an error state.  The byte is the one the decoding primitive looked up.
C40_LeadingBytePayload ==
    (pc = "decode_and_advance_forward_once" /\ B[1] >= \h80) =>
        /\ InRange(B[1], \hC2, \hDF) => get_leading_byte_info(B[1]).data = BitAnd(B[1], \h1F)
        /\ InRange(B[1], \hE0, \hEF) => get_leading_byte_info(B[1]).data = BitAnd(B[1], \h0F)
        /\ InRange(B[1], \hF0, \hF4) => get_leading_byte_info(B[1]).data = BitAnd(B[1], \h07)
        /\ get_leading_byte_info(B[1]).next_state \in ErrorStates =>
              get_leading_byte_info(B[1]).data = B[1]

====
